---- MODULE Spec2Model ----
(***************************************************************************)
(* A model of the stream-reconciliation and triggered-regeneration engine  *)
(* of the meeting-minutes and agent-builder features:                      *)
(*                                                                         *)
(*   - the regeneration scheduler of MeetingMinutesGeneration              *)
(*     (src/unnamed/part_000),                                             *)
(*   - the prompt generation hook usePromptGeneration with its two marker  *)
(*     extractors (src/packages/web/src/hooks/useIsMobile.ts),             *)
(*   - the chunk decoder (src/packages/web/src/utils/streamParser.ts),     *)
(*   - the transcript reconciler of MeetingMinutesTranscription            *)
(*     (src/packages/web/src/components/MeetingMinutes/                    *)
(*      MeetingMinutesTranscription.tsx).                                  *)
(*                                                                         *)
(* React is modelled at the granularity of one event: an action is the     *)
(* event handler (or timer callback, or delivery of a stream chunk)        *)
(* together with the render it causes and every effect whose dependencies  *)
(* that render changed.  Each component has its own specification; the     *)
(* variables of the other components keep their initial values in it.      *)
(***************************************************************************)
EXTENDS Integers, Sequences, FiniteSets, TLC

VARIABLES
  \* ---- MeetingMinutesGeneration (src/unnamed/part_000)
  autoGenerate,          \* useState(false), line 40
  generationFrequency,   \* useState(5), line 41: minutes between generations
  countdownSeconds,      \* useState(0), line 44
  countdownIntervalRef,  \* TRUE iff the one-second interval of line 156 is set
  intervalTotalSeconds,  \* totalSeconds (line 153) the callback of that interval closes over
  liveIntervals,         \* history, the intervals set (line 156) and not cleared
  mounted,               \* the component is mounted
  shouldGenerateRef,     \* useRef(false), line 31: the fire signal
  transcriptHasText,     \* transcriptText.trim() !== '' (prop, lines 86-88, 110)
  minutesLoading,        \* loading of useMeetingMinutes, line 72
  minutesInFlight,       \* number of generateMinutes calls that have not completed
  firesWhilePending,     \* history: fires raised while the current call was in flight
  missedAtCompletion,    \* history: firesWhilePending of the call that has just completed
  \* ---- usePromptGeneration (src/packages/web/src/hooks/useIsMobile.ts)
  generatedPrompt,       \* useState(''), line 131
  suggestedMCPServers,   \* useState([]), line 132
  isGenerating,          \* useState(false), line 133
  error,                 \* useState(null), line 134: "null" or the kind of the error
  abortControllerRef,    \* useRef(null), line 135: "null", "live" or "aborted"
  mcpServersParsedRef,   \* useRef(false), line 136
  calls,                 \* the generate() calls: position and local rawOutput
  lastFinished,          \* history: how the last finished call ended, and its rawOutput
  \* ---- MeetingMinutesTranscription (MeetingMinutesTranscription.tsx)
  transcriptionSegments, \* useState([]), lines 81-83: the merged collection
  currentSessionId,      \* useState(0), line 86
  micRawTranscripts,     \* rawTranscripts of useMicrophone, line 52
  screenRawTranscripts,  \* rawTranscripts of useScreenAudio, line 63
  enableScreenAudio,     \* useState(false), line 79
  micRecording,          \* recording of useMicrophone, line 51
  screenRecording,       \* recording of useScreenAudio, line 59
  speakers,              \* useState(''), line 78: the names, separated by ','
  sinceClear,            \* history, Clear was pressed and no source has published since
  \* ---- parseStreamChunk / extractTextFromChunks applied to one chunk
  decodeChunk,           \* the raw chunk string
  decodeEvents,          \* the result of parseStreamChunk, once computed
  decodeText,            \* the result of extractTextFromChunks, once computed
  \* ---- extractSystemPrompt applied to one buffer
  extractBuffer,         \* the accumulated raw output handed to the extractor
  extractedPrompt,       \* the result of extractSystemPrompt, once computed
  \* ---- extractTextFromChunks applied to one event list
  textEvents,            \* the event list handed to extractTextFromChunks
  textResult,            \* the result of extractTextFromChunks, once computed
  \* ---- parseContent applied to one content string (Writer/lib/contentParser.ts)
  parseInput,            \* the content handed to parseContent
  parseResult,           \* the document parseContent returns, once computed
  \* ---- MeetingMinutesPage (pages/MeetingMinutesPage.tsx)
  inputMethod,           \* the input tab shown
  realtimeTranslationRecording, \* the recording state the translation tab reported
  \* ---- MermaidWithToggle (components/Mermaid/MermaidWithToggle.tsx)
  code,                  \* the code prop of the last render
  viewMode,              \* 'code' or 'diagram'
  zoom,                  \* the zoom overlay is open
  editedCode,            \* the code shown and rendered
  prevCodeRef,           \* the code the auto-switch effect saw last
  timerRef,              \* ticks until the pending timeout fires, 0 with none pending
  stableTicks,           \* history, ticks since the code prop was set, saturating
  viewChosen,            \* history, a view button has been pressed
  \* ---- the diagram options of MeetingMinutesGeneration
  diagramOptions,        \* the selected diagram options, in order of selection
  prevDiagramOptions,    \* history, the selection before the last toggle
  toggledOption,         \* history, the option toggled last
  \* ---- the minutes style settings of MeetingMinutesGeneration
  minutesStyle,          \* the style of the minutes
  customPrompt,          \* the prompt of the 'custom' style
  \* ---- history shared by all components
  lastEvent              \* the name of the last action taken

schedVars == <<autoGenerate, generationFrequency, countdownSeconds,
               countdownIntervalRef, intervalTotalSeconds, liveIntervals,
               mounted, shouldGenerateRef, transcriptHasText, minutesLoading, minutesInFlight, firesWhilePending,
               missedAtCompletion>>

genVars == <<generatedPrompt, suggestedMCPServers, isGenerating, error,
             abortControllerRef, mcpServersParsedRef, calls, lastFinished>>

decodeVars == <<decodeChunk, decodeEvents, decodeText>>

transVars == <<transcriptionSegments, currentSessionId, micRawTranscripts,
               screenRawTranscripts, enableScreenAudio, micRecording,
               screenRecording, speakers, sinceClear>>

markerVars == <<extractBuffer, extractedPrompt>>

textVars == <<textEvents, textResult>>

parseVars == <<parseInput, parseResult>>

pageVars == <<inputMethod, realtimeTranslationRecording>>

mermaidVars == <<code, viewMode, zoom, editedCode, prevCodeRef, timerRef, stableTicks, viewChosen>>

diagramVars == <<diagramOptions, prevDiagramOptions, toggledOption>>

styleVars == <<minutesStyle, customPrompt>>

vars == <<schedVars, genVars, decodeVars, transVars, markerVars, textVars,
          parseVars, pageVars, mermaidVars, diagramVars, styleVars,
          lastEvent>>

\* what the actions of one component leave alone
notSched == <<genVars, decodeVars, transVars, markerVars, textVars,
              parseVars, pageVars, mermaidVars, diagramVars, styleVars>>
notGen == <<schedVars, decodeVars, transVars, markerVars, textVars,
            parseVars, pageVars, mermaidVars, diagramVars, styleVars>>
notDecode == <<schedVars, genVars, transVars, markerVars, textVars,
               parseVars, pageVars, mermaidVars, diagramVars, styleVars>>
notTrans == <<schedVars, genVars, decodeVars, markerVars, textVars,
              parseVars, pageVars, mermaidVars, diagramVars, styleVars>>
notMarker == <<schedVars, genVars, decodeVars, transVars, textVars,
               parseVars, pageVars, mermaidVars, diagramVars, styleVars>>
notText == <<schedVars, genVars, decodeVars, transVars, markerVars,
             parseVars, pageVars, mermaidVars, diagramVars, styleVars>>
notParse == <<schedVars, genVars, decodeVars, transVars, markerVars,
              textVars, pageVars, mermaidVars, diagramVars, styleVars>>
notPage == <<schedVars, genVars, decodeVars, transVars, markerVars, textVars,
             parseVars, mermaidVars, diagramVars, styleVars>>
notMermaid == <<schedVars, genVars, decodeVars, transVars, markerVars,
                textVars, parseVars, pageVars, diagramVars, styleVars>>
notDiagram == <<schedVars, genVars, decodeVars, transVars, markerVars,
                textVars, parseVars, pageVars, mermaidVars, styleVars>>
notStyle == <<schedVars, genVars, decodeVars, transVars, markerVars,
              textVars, parseVars, pageVars, mermaidVars, diagramVars>>

Min(a, b) == IF a <= b THEN a ELSE b

(***************************************************************************)
(* Bounds and program constants                                            *)
(***************************************************************************)
\* history counter firesWhilePending saturates here
MaxMissedFires == 2

\* generate() calls that may be open at the same time
MaxCalls == 2

\* tokens of rawOutput of a generate() call, where one call is open at a time
MaxRawOutput == 5

\* tokens of rawOutput of a generate() call, where calls overlap
MaxOverlapOutput == 2

\* tokens of rawOutput of a generate() call, where cancel() is examined
MaxCancelOutput == 1

\* presses of "start recording" since the last "clear"
MaxSession == 1

\* tokens of a content string handed to parseContent
MaxContentLen == 3

\* ticks of time that make the 500 ms of the view switch timeout
TicksPerDelay == 2

\* events of a list handed to extractTextFromChunks
MaxEvents == 3

\* tokens of a buffer handed to extractSystemPrompt
MaxBufferLen == 6

\* characters of a raw chunk handed to parseStreamChunk
MaxChunkLen == 5

\* generationFrequency * 60, part_000 line 153
SecondsPerMinute == 60

\* the cadences the settings modal offers are 1, 3, 5 and 10 minutes
\* (MeetingMinutesSettingsModal.tsx lines 276-283); 5 is the initial one.
\* The model draws from the initial one and the shortest one.
FrequencyOptions == {1, 5}

MinutesStyles == {"summary", "custom"}
CustomPrompts == {"", "p"}

(***************************************************************************)
(* MeetingMinutesGeneration: the regeneration scheduler                    *)
(***************************************************************************)

\* useMeetingMinutes is not part of the available sources.  Following the
\* specification (pending is set when a generation call starts and cleared when
\* it completes, by success or by failure), generateMinutes starts one call and
\* raises loading; the callers are the ones that check loading.
GenerateMinutes(inflight) ==
  [loading |-> TRUE, inflight |-> inflight + 1]

\* A variant of the effect that keeps the fire signal while a call is in flight.
GenerationSignalEffectKeepsFire(ref, auto, hasText, loading) ==
  IF ref /\ auto /\ hasText /\ ~loading
    THEN [ref |-> FALSE, generate |-> TRUE]
    ELSE [ref |-> ref, generate |-> FALSE]

\* A variant of the effect that does not look at the transcript.
GenerationSignalEffectAnyTranscript(ref, auto, hasText, loading) ==
  IF ref /\ auto
    THEN IF ~loading
           THEN [ref |-> FALSE, generate |-> TRUE]
           ELSE [ref |-> FALSE, generate |-> FALSE]
    ELSE [ref |-> ref, generate |-> FALSE]

\* The generation-signal effect, lines 106-129: what it leaves in
\* shouldGenerateRef and whether it calls generateMinutes.
GenerationSignalEffect(ref, auto, hasText, loading) ==
  IF ref /\ auto /\ hasText
    THEN IF ~loading
           THEN [ref |-> FALSE, generate |-> TRUE]
           ELSE [ref |-> FALSE, generate |-> FALSE]
    ELSE [ref |-> ref, generate |-> FALSE]

\* The render after an event and the generation-signal effect it runs, given
\* the values the event left.  When the effect starts a call, loading changes,
\* the effect runs once more and finds the signal already cleared.
Rerender(ref, auto, hasText, loading, inflight, missed) ==
  LET e == GenerationSignalEffect(ref, auto, hasText, loading)
      g == GenerateMinutes(inflight)
  IN  /\ shouldGenerateRef' = e.ref
      /\ minutesLoading' = IF e.generate THEN g.loading ELSE loading
      /\ minutesInFlight' = IF e.generate THEN g.inflight ELSE inflight
      /\ firesWhilePending' = IF e.generate THEN 0 ELSE missed

\* A variant of the countdown effect that leaves the interval set when
\* autoGenerate is off.
CountdownEffectKeepsInterval(auto, freq, oldTotal) ==
  IF ~auto \/ freq <= 0
    THEN [seconds |-> 0, interval |-> TRUE, total |-> oldTotal]
    ELSE [seconds |-> freq * SecondsPerMinute, interval |-> TRUE,
          total |-> freq * SecondsPerMinute]

\* A variant of the countdown effect that sets the countdown to the new cadence
\* and leaves the interval of the old cadence in place.
CountdownEffectKeepsOldInterval(auto, freq, oldTotal) ==
  IF ~auto \/ freq <= 0
    THEN [seconds |-> 0, interval |-> FALSE, total |-> 0]
    ELSE [seconds |-> freq * SecondsPerMinute, interval |-> TRUE,
          total |-> IF oldTotal > 0 THEN oldTotal
                                    ELSE freq * SecondsPerMinute]

\* The countdown effect, lines 142-172, run for new values of autoGenerate and
\* generationFrequency: the old interval (whose callback closes over oldTotal)
\* is cleared, and either the countdown is set to 0 or it is set to the full
\* cadence and a new interval is set, whose callback closes over the new total.
CountdownEffect(auto, freq, oldTotal) ==
  IF ~auto \/ freq <= 0
    THEN [seconds |-> 0, interval |-> FALSE, total |-> 0]
    ELSE [seconds |-> freq * SecondsPerMinute, interval |-> TRUE,
          total |-> freq * SecondsPerMinute]

\* A variant of the countdown effect that sets a new interval without clearing
\* the one in place.
LiveIntervalsAfterNoClear(auto, freq, refSet, live) ==
  IF ~auto \/ freq <= 0 THEN live ELSE live + 1

\* The countdown effect, lines 142-172, counted in intervals: the cleanup of
\* the previous run (lines 167-171) and lines 143-146 clear the interval the
\* ref holds (clearInterval of an interval already cleared does nothing), and
\* line 156 sets one unless autoGenerate is off or the cadence is not positive
LiveIntervalsAfter(auto, freq, refSet, live) ==
  LET cleared == IF refSet THEN live - 1 ELSE live
  IN  IF ~auto \/ freq <= 0 THEN cleared ELSE cleared + 1

\* A variant of the updater that lets the countdown reach 0 and fires on the
\* tick after.
CountdownUpdaterFiresBelowZero(prev, totalSeconds) ==
  LET newValue == prev - 1
  IN  IF newValue < 0
        THEN [fire |-> TRUE, seconds |-> totalSeconds]
        ELSE [fire |-> FALSE, seconds |-> newValue]

\* The updater of the interval callback, lines 157-164: whether it raises the
\* fire signal, and the new value of countdownSeconds.
CountdownUpdater(prev, totalSeconds) ==
  LET newValue == prev - 1
  IN  IF newValue <= 0
        THEN [fire |-> TRUE, seconds |-> totalSeconds]
        ELSE [fire |-> FALSE, seconds |-> newValue]

\* The interval callback, lines 156-165.
CountdownTick ==
  /\ mounted
  /\ UNCHANGED <<liveIntervals, mounted>>
  /\ countdownIntervalRef
  /\ LET totalSeconds == intervalTotalSeconds
         updated == CountdownUpdater(countdownSeconds, totalSeconds)
         fire == updated.fire
         next == updated.seconds
         ref == IF fire THEN TRUE ELSE shouldGenerateRef
         missed == IF fire /\ minutesLoading
                     THEN Min(firesWhilePending + 1, MaxMissedFires)
                     ELSE firesWhilePending
     IN  /\ countdownSeconds' = next
         /\ IF next # countdownSeconds
              THEN Rerender(ref, autoGenerate, transcriptHasText,
                            minutesLoading, minutesInFlight, missed)
              ELSE /\ shouldGenerateRef' = ref
                   /\ firesWhilePending' = missed
                   /\ UNCHANGED <<minutesLoading, minutesInFlight>>
         /\ lastEvent' = IF fire THEN "fire" ELSE "tick"
  /\ missedAtCompletion' = 0
  /\ UNCHANGED notSched
  /\ UNCHANGED <<autoGenerate, generationFrequency, countdownIntervalRef,
                 intervalTotalSeconds, transcriptHasText>>

\* The switch of the settings modal, setAutoGenerate (modal lines 263-267).
SetAutoGenerate(b) ==
  /\ mounted
  /\ liveIntervals' = LiveIntervalsAfter(b, generationFrequency, countdownIntervalRef,
                                       liveIntervals)
  /\ UNCHANGED mounted
  /\ b # autoGenerate
  /\ LET c == CountdownEffect(b, generationFrequency, intervalTotalSeconds)
     IN  /\ autoGenerate' = b
         /\ countdownSeconds' = c.seconds
         /\ countdownIntervalRef' = c.interval
         /\ intervalTotalSeconds' = c.total
         /\ Rerender(shouldGenerateRef, b, transcriptHasText,
                     minutesLoading, minutesInFlight, firesWhilePending)
  /\ lastEvent' = "setAutoGenerate"
  /\ missedAtCompletion' = 0
  /\ UNCHANGED notSched
  /\ UNCHANGED <<generationFrequency, transcriptHasText>>

\* The cadence select of the settings modal, shown while autoGenerate is on
\* (modal lines 268-285).
SetGenerationFrequency(f) ==
  /\ mounted
  /\ liveIntervals' = LiveIntervalsAfter(autoGenerate, f, countdownIntervalRef,
                                       liveIntervals)
  /\ UNCHANGED mounted
  /\ autoGenerate
  /\ f # generationFrequency
  /\ LET c == CountdownEffect(autoGenerate, f, intervalTotalSeconds)
     IN  /\ generationFrequency' = f
         /\ countdownSeconds' = c.seconds
         /\ countdownIntervalRef' = c.interval
         /\ intervalTotalSeconds' = c.total
         /\ Rerender(shouldGenerateRef, autoGenerate, transcriptHasText,
                     minutesLoading, minutesInFlight, firesWhilePending)
  /\ lastEvent' = "setGenerationFrequency"
  /\ missedAtCompletion' = 0
  /\ UNCHANGED notSched
  /\ UNCHANGED <<autoGenerate, transcriptHasText>>

\* The component is unmounted: the cleanup of the countdown effect, lines
\* 167-171, clears the interval the ref holds and leaves the ref as it is.
\* Nothing of the component runs afterwards.
Unmount ==
  /\ mounted
  /\ mounted' = FALSE
  /\ liveIntervals' = IF countdownIntervalRef THEN liveIntervals - 1
                                              ELSE liveIntervals
  /\ lastEvent' = "unmount"
  /\ missedAtCompletion' = 0
  /\ UNCHANGED notSched
  /\ UNCHANGED <<autoGenerate, generationFrequency, countdownSeconds,
                 countdownIntervalRef, intervalTotalSeconds, shouldGenerateRef,
                 transcriptHasText, minutesLoading, minutesInFlight,
                 firesWhilePending>>

\* The transcriptText prop changes between empty and not empty.
TranscriptChange ==
  /\ mounted
  /\ UNCHANGED <<liveIntervals, mounted>>
  /\ transcriptHasText' = ~transcriptHasText
  /\ Rerender(shouldGenerateRef, autoGenerate, ~transcriptHasText,
              minutesLoading, minutesInFlight, firesWhilePending)
  /\ lastEvent' = "transcriptChange"
  /\ missedAtCompletion' = 0
  /\ UNCHANGED notSched
  /\ UNCHANGED <<autoGenerate, generationFrequency, countdownSeconds,
                 countdownIntervalRef, intervalTotalSeconds>>

\* handleManualGeneration, lines 175-197: whether it calls generateMinutes.
ManualStarts(style, prompt) ==
  /\ ~(style = "custom" /\ prompt = "")
  /\ transcriptHasText
  /\ ~minutesLoading

\* handleManualGeneration, lines 175-208.  minutesStyle and customPrompt are
\* settings the user edits freely between two events, and only this handler
\* reads them: they are inputs of the action.
ManualGeneration(style, prompt) ==
  /\ mounted
  /\ UNCHANGED <<liveIntervals, mounted>>
  /\ LET g == GenerateMinutes(minutesInFlight)
     IN  IF ManualStarts(style, prompt)
           THEN /\ minutesLoading' = g.loading
                /\ minutesInFlight' = g.inflight
                /\ firesWhilePending' = 0
                /\ lastEvent' = "manualStart"
           ELSE /\ UNCHANGED <<minutesLoading, minutesInFlight,
                               firesWhilePending>>
                /\ lastEvent' = "manualIgnored"
  /\ missedAtCompletion' = 0
  /\ UNCHANGED notSched
  /\ UNCHANGED <<autoGenerate, generationFrequency, countdownSeconds,
                 countdownIntervalRef, intervalTotalSeconds, shouldGenerateRef,
                 transcriptHasText>>

\* A generation call ends, by success or by failure: useMeetingMinutes clears
\* loading (specification: pending is cleared when the call completes), and the
\* render runs the generation-signal effect.
CompleteMinutes(outcome) ==
  /\ mounted
  /\ UNCHANGED <<liveIntervals, mounted>>
  /\ minutesInFlight > 0
  /\ Rerender(shouldGenerateRef, autoGenerate, transcriptHasText,
              FALSE, minutesInFlight - 1, firesWhilePending)
  /\ lastEvent' = IF outcome = "success" THEN "completeSuccess"
                                         ELSE "completeError"
  /\ missedAtCompletion' = firesWhilePending
  /\ UNCHANGED notSched
  /\ UNCHANGED <<autoGenerate, generationFrequency, countdownSeconds,
                 countdownIntervalRef, intervalTotalSeconds, transcriptHasText>>

(***************************************************************************)
(* Strings.  A string is a sequence of tokens; a token is a character or   *)
(* an indivisible piece of text.  Indices are 0-based, as in the code.     *)
(***************************************************************************)

\* the characters String.prototype.trim removes
Whitespace == {" ", "\n"}

RECURSIVE TrimStart(_)
TrimStart(s) ==
  IF s # <<>> /\ Head(s) \in Whitespace THEN TrimStart(Tail(s)) ELSE s

RECURSIVE TrimEnd(_)
TrimEnd(s) ==
  IF s # <<>> /\ s[Len(s)] \in Whitespace
    THEN TrimEnd(SubSeq(s, 1, Len(s) - 1))
    ELSE s

Trim(s) == TrimEnd(TrimStart(s))

\* String.prototype.indexOf(pat, from): the first index >= from at which pat
\* occurs in s, or -1
IndexOf(s, pat, from) ==
  LET hits == {i \in from..(Len(s) - Len(pat)) :
                 SubSeq(s, i + 1, i + Len(pat)) = pat}
  IN  IF hits = {} THEN -1
      ELSE CHOOSE i \in hits : \A j \in hits : i <= j

\* String.prototype.slice(a, b) for 0 <= a and 0 <= b
Slice(s, a, b) == SubSeq(s, a + 1, Min(b, Len(s)))

\* String.prototype.split(sep) for a separator of one character
RECURSIVE Split(_, _)
Split(s, sep) ==
  LET i == IndexOf(s, <<sep>>, 0)
  IN  IF i = -1 THEN <<s>>
      ELSE <<Slice(s, 0, i)>> \o Split(Slice(s, i + 1, Len(s)), sep)

\* Array.prototype.join('') of a list of strings
RECURSIVE JoinAll(_)
JoinAll(ss) == IF ss = <<>> THEN <<>> ELSE Head(ss) \o JoinAll(Tail(ss))

(***************************************************************************)
(* ChunkDecoder: src/packages/web/src/utils/streamParser.ts                *)
(*                                                                         *)
(* In a raw chunk a JSON text without a line break in it is one token.     *)
(***************************************************************************)

\* the JSON text of the record {text: t}; t is one token of text, or empty
ObjectLine(t) == "{\"text\":\"" \o t \o "\"}"

\* the text payloads of the records that occur in the model
TextAlphabet ==
  {"<SELECTED_MCP_SERVERS>", "</SELECTED_MCP_SERVERS>",
   "<SYSTEM_PROMPT>", "</SYSTEM_", "PROMPT>", "x", "\n"}

Payloads == TextAlphabet \cup {""}

\* JSON.parse of one line (streamParser.ts line 16): white space around the
\* value is accepted; the line must hold exactly one JSON value.
JSONParse(line) ==
  LET body == Trim(line)
  IN  IF Len(body) # 1 THEN [ok |-> FALSE, kind |-> "none", text |-> <<>>]
      ELSE IF body[1] = "null"
        THEN [ok |-> TRUE, kind |-> "null", text |-> <<>>]
      ELSE IF body[1] = "7"
        THEN [ok |-> TRUE, kind |-> "number", text |-> <<>>]
      ELSE IF \E t \in Payloads : body[1] = ObjectLine(t)
        THEN LET t == CHOOSE t \in Payloads : body[1] = ObjectLine(t)
             IN  [ok |-> TRUE, kind |-> "object",
                  text |-> IF t = "" THEN <<>> ELSE <<t>>]
      ELSE [ok |-> FALSE, kind |-> "none", text |-> <<>>]

LineNotBlank(line) == Trim(line) # <<>>

\* A variant of the loop that stops at the first line that does not parse.
RECURSIVE ParseLinesStopAtBadLine(_)
ParseLinesStopAtBadLine(lines) ==
  IF lines = <<>> THEN <<>>
  ELSE LET payload == JSONParse(Head(lines))
       IN  IF payload.ok
             THEN <<[kind |-> payload.kind, text |-> payload.text]>>
                  \o ParseLinesStopAtBadLine(Tail(lines))
             ELSE <<>>

\* the loop of lines 14-22: a line that parses is pushed, any other is skipped
RECURSIVE ParseLines(_)
ParseLines(lines) ==
  IF lines = <<>> THEN <<>>
  ELSE LET payload == JSONParse(Head(lines))
       IN  (IF payload.ok
              THEN <<[kind |-> payload.kind, text |-> payload.text]>>
              ELSE <<>>) \o ParseLines(Tail(lines))

\* parseStreamChunk, lines 10-25
parseStreamChunk(chunk) ==
  ParseLines(SelectSeq(Split(chunk, "\n"), LineNotBlank))

\* A variant of extractTextFromChunks that joins the texts from the last event
\* to the first.
extractTextFromChunksLastFirst(chunks) ==
  LET n == Len(chunks)
      reversed == [i \in 1..n |-> chunks[n + 1 - i]]
      upTo[k \in 0..n] ==
        IF k = 0 THEN <<>>
        ELSE upTo[k - 1] \o (IF reversed[k].kind = "object"
                               THEN reversed[k].text ELSE <<>>)
  IN  IF \E i \in 1..n : chunks[i].kind = "null"
        THEN [threw |-> TRUE, text |-> <<>>]
        ELSE [threw |-> FALSE, text |-> upTo[n]]

HasText(chunk) == chunk.kind = "object" /\ Len(chunk.text) > 0

RECURSIVE TextsOf(_)
TextsOf(chunks) ==
  IF chunks = <<>> THEN <<>>
  ELSE <<Head(chunks).text>> \o TextsOf(Tail(chunks))

\* extractTextFromChunks, lines 33-38.  Reading .text of null throws a
\* TypeError; of any other value without the property it gives undefined.
extractTextFromChunks(chunks) ==
  IF \E i \in 1..Len(chunks) : chunks[i].kind = "null"
    THEN [threw |-> TRUE, text |-> <<>>]
    ELSE [threw |-> FALSE, text |-> JoinAll(TextsOf(SelectSeq(chunks, HasText)))]

(***************************************************************************)
(* MarkerExtractor: src/packages/web/src/hooks/useIsMobile.ts lines 74-116 *)
(*                                                                         *)
(* The markers of src/packages/web/src/prompts/agentSystemPromptGenerator  *)
(* .ts lines 21-24.  A marker that arrives in two chunks is ordinary       *)
(* content to both extractors until its second part arrives; the model     *)
(* keeps that for the marker that ends the field surfaced while it is      *)
(* still streaming, and takes the other three as one token each.           *)
(***************************************************************************)
MCP_SERVERS_START_MARKER == <<"<SELECTED_MCP_SERVERS>">>
MCP_SERVERS_END_MARKER == <<"</SELECTED_MCP_SERVERS>">>
SYSTEM_PROMPT_START_MARKER == <<"<SYSTEM_PROMPT>">>
SYSTEM_PROMPT_END_MARKER == <<"</SYSTEM_", "PROMPT>">>

NullServers == [isNull |-> TRUE, servers |-> <<>>]

LineNotEmpty(line) == Len(line) > 0

RECURSIVE TrimEach(_)
TrimEach(lines) ==
  IF lines = <<>> THEN <<>> ELSE <<Trim(Head(lines))>> \o TrimEach(Tail(lines))

\* lines 87-90: split on line breaks, trim each line, drop the empty ones
ServerLines(content) == SelectSeq(TrimEach(Split(content, "\n")), LineNotEmpty)

\* parseMCPServers, lines 74-91
parseMCPServers(rawOutput) ==
  LET startIndex == IndexOf(rawOutput, MCP_SERVERS_START_MARKER, 0)
      endIndex == IndexOf(rawOutput, MCP_SERVERS_END_MARKER, 0)
  IN  IF startIndex = -1 \/ endIndex = -1 \/ endIndex <= startIndex
        THEN NullServers
        ELSE [isNull |-> FALSE,
              servers |-> ServerLines(
                Slice(rawOutput,
                      startIndex + Len(MCP_SERVERS_START_MARKER), endIndex))]

\* A variant of extractSystemPrompt that takes the last end marker of the
\* output, as lastIndexOf does.
extractSystemPromptLastEnd(rawOutput) ==
  LET startIndex == IndexOf(rawOutput, SYSTEM_PROMPT_START_MARKER, 0)
      contentStart == startIndex + Len(SYSTEM_PROMPT_START_MARKER)
      found == {i \in contentStart..Len(rawOutput) :
                  IndexOf(rawOutput, SYSTEM_PROMPT_END_MARKER, i) = i}
      endIndex == IF found = {} THEN -1
                  ELSE CHOOSE i \in found : \A j \in found : j <= i
  IN  IF startIndex = -1 THEN <<>>
      ELSE IF endIndex = -1
        THEN TrimStart(Slice(rawOutput, contentStart, Len(rawOutput)))
      ELSE Trim(Slice(rawOutput, contentStart, endIndex))

\* A variant of extractSystemPrompt that trims the open value on both sides.
extractSystemPromptTrimsOpen(rawOutput) ==
  LET startIndex == IndexOf(rawOutput, SYSTEM_PROMPT_START_MARKER, 0)
      contentStart == startIndex + Len(SYSTEM_PROMPT_START_MARKER)
      endIndex == IndexOf(rawOutput, SYSTEM_PROMPT_END_MARKER, contentStart)
  IN  IF startIndex = -1 THEN <<>>
      ELSE IF endIndex = -1
        THEN Trim(Slice(rawOutput, contentStart, Len(rawOutput)))
      ELSE Trim(Slice(rawOutput, contentStart, endIndex))

\* extractSystemPrompt, lines 99-116
extractSystemPrompt(rawOutput) ==
  LET startIndex == IndexOf(rawOutput, SYSTEM_PROMPT_START_MARKER, 0)
      contentStart == startIndex + Len(SYSTEM_PROMPT_START_MARKER)
      endIndex == IndexOf(rawOutput, SYSTEM_PROMPT_END_MARKER, contentStart)
  IN  IF startIndex = -1 THEN <<>>
      ELSE IF endIndex = -1
        THEN TrimStart(Slice(rawOutput, contentStart, Len(rawOutput)))
      ELSE Trim(Slice(rawOutput, contentStart, endIndex))

(***************************************************************************)
(* usePromptGeneration: src/packages/web/src/hooks/useIsMobile.ts          *)
(*                                                                         *)
(* predictStream is the generation transport: it delivers raw chunks, ends *)
(* or throws.  generate() does not hand it the abort signal, so the        *)
(* transport keeps delivering after cancel(); the loop looks at the signal *)
(* when the next chunk arrives.                                            *)
(***************************************************************************)
CallIds == 1..MaxCalls

\* cancelled is history: cancel() was called while the call was open
FreeCall == [pc |-> "free", rawOutput |-> <<>>, cancelled |-> FALSE]

NoneFinished == [outcome |-> "none", rawOutput |-> <<>>]

Running == {c \in CallIds : calls[c].pc = "running"}

\* the raw chunks the transport delivers where the extraction is examined:
\* one record, or two records joined by a line break, each with one token of
\* text or with empty text
ExtractChunks ==
  {<<ObjectLine(t)>> : t \in Payloads}
    \cup {<<ObjectLine(t), "\n", ObjectLine(u)>> : t \in TextAlphabet, u \in TextAlphabet}

\* the raw chunks the transport delivers where overlapping calls are examined:
\* records with text, a line that is not JSON, and the JSON value null
GenChunks ==
  {<<ObjectLine("<SYSTEM_PROMPT>")>>, <<ObjectLine("x")>>, <<"#">>, <<"null">>}

\* lines 182-184: parseStreamChunk, then extractTextFromChunks, for each raw
\* chunk the transport delivers in the model
DecodedChunk ==
  [chunk \in ExtractChunks \cup GenChunks |->
     extractTextFromChunks(parseStreamChunk(chunk))]

\* finally, lines 210-213, for the call c, and its end
Finally(c, outcome) ==
  /\ isGenerating' = FALSE
  /\ abortControllerRef' = "null"
  /\ calls' = [calls EXCEPT ![c] = FreeCall]
  /\ lastFinished' = [outcome |-> outcome, rawOutput |-> calls[c].rawOutput]

\* AgentForm.tsx lines 269-291: the button that calls generate() is rendered
\* while isGenerating is false (the stop button takes its place otherwise).
GenerateEnabled == ~isGenerating

\* generate(), lines 144-163: the part before the first chunk is awaited
Generate ==
  /\ GenerateEnabled
  /\ \E c \in CallIds : calls[c].pc = "free"
  /\ LET c == CHOOSE c \in CallIds :
                /\ calls[c].pc = "free"
                /\ \A d \in CallIds : calls[d].pc = "free" => c <= d
     IN  calls' = [calls EXCEPT ![c] = [pc |-> "running", rawOutput |-> <<>>,
                                         cancelled |-> FALSE]]
  /\ isGenerating' = TRUE
  /\ error' = "null"
  /\ generatedPrompt' = <<>>
  /\ suggestedMCPServers' = <<>>
  /\ mcpServersParsedRef' = FALSE
  /\ abortControllerRef' = "live"
  /\ lastFinished' = NoneFinished
  /\ lastEvent' = "generate"
  /\ UNCHANGED notGen

\* line 200: if (systemPrompt)
PromptSurfaced(systemPrompt) == systemPrompt # <<>>

\* line 177: abortControllerRef.current?.signal.aborted
AbortSeen == abortControllerRef = "aborted"

\* The transport delivers a chunk to the call c: one round of the loop,
\* lines 164-204, then catch and finally when the round leaves the loop.
Deliver(c, chunk, maxOutput) ==
  /\ calls[c].pc = "running"
  /\ UNCHANGED notGen
  /\ IF AbortSeen
       THEN /\ Finally(c, "aborted")
            /\ lastEvent' = "break"
            /\ UNCHANGED <<generatedPrompt, suggestedMCPServers, error,
                           mcpServersParsedRef>>
       ELSE LET extracted == DecodedChunk[chunk]
                text == extracted.text
                rawOutput == calls[c].rawOutput \o text
                servers == parseMCPServers(rawOutput)
                systemPrompt == extractSystemPrompt(rawOutput)
            IN  IF extracted.threw
                  THEN /\ error' = "TypeError"
                       /\ Finally(c, "error")
                       /\ lastEvent' = "chunkThrows"
                       /\ UNCHANGED <<generatedPrompt, suggestedMCPServers,
                                      mcpServersParsedRef>>
                  ELSE /\ Len(rawOutput) <= maxOutput
                       /\ calls' = [calls EXCEPT ![c].rawOutput = rawOutput]
                       /\ IF text # <<>> /\ ~mcpServersParsedRef /\ ~servers.isNull
                            THEN /\ suggestedMCPServers' = servers.servers
                                 /\ mcpServersParsedRef' = TRUE
                            ELSE UNCHANGED <<suggestedMCPServers,
                                             mcpServersParsedRef>>
                       /\ IF text # <<>> /\ PromptSurfaced(systemPrompt)
                            THEN generatedPrompt' = systemPrompt
                            ELSE UNCHANGED generatedPrompt
                       /\ lastEvent' = "chunk"
                       /\ UNCHANGED <<isGenerating, error, abortControllerRef,
                                      lastFinished>>

\* The stream of the call c ends: the loop ends, then finally.
StreamEnd(c) ==
  /\ calls[c].pc = "running"
  /\ Finally(c, "success")
  /\ lastEvent' = "streamEnd"
  /\ UNCHANGED notGen
  /\ UNCHANGED <<generatedPrompt, suggestedMCPServers, error,
                 mcpServersParsedRef>>

\* what the transport may throw: an Error, an Error named AbortError, or a
\* value that is not an Error
Thrown == {"Error", "AbortError", "notAnError"}

\* The transport of the call c throws: catch, lines 205-209, then finally.
StreamThrows(c, thrown) ==
  /\ calls[c].pc = "running"
  /\ error' = IF thrown = "Error" THEN "Error" ELSE error
  /\ Finally(c, IF thrown = "Error" THEN "error" ELSE "swallowed")
  /\ lastEvent' = "throws" \o thrown
  /\ UNCHANGED notGen
  /\ UNCHANGED <<generatedPrompt, suggestedMCPServers, mcpServersParsedRef>>

\* A variant of the abort of cancel() that makes a controller when there is
\* none, and aborts it.
AbortCurrentOrNew(ref) == "aborted"

\* cancel(), lines 229-231: the controller after it
AbortCurrent(ref) == IF ref # "null" THEN "aborted" ELSE ref

\* cancel(), lines 228-233
Cancel ==
  /\ abortControllerRef' = AbortCurrent(abortControllerRef)
  /\ isGenerating' = FALSE
  /\ calls' = [c \in CallIds |->
                 IF calls[c].pc = "running"
                   THEN [calls[c] EXCEPT !.cancelled = TRUE]
                   ELSE calls[c]]
  /\ lastEvent' = "cancel"
  /\ UNCHANGED notGen
  /\ UNCHANGED <<generatedPrompt, suggestedMCPServers, error,
                 mcpServersParsedRef, lastFinished>>

GenInit ==
  /\ generatedPrompt = <<>>
  /\ suggestedMCPServers = <<>>
  /\ isGenerating = FALSE
  /\ error = "null"
  /\ abortControllerRef = "null"
  /\ mcpServersParsedRef = FALSE
  /\ calls = [c \in CallIds |-> FreeCall]
  /\ lastFinished = NoneFinished

\* generate(), cancel() and the transport, with calls that may overlap
GenNext ==
  \/ Generate
  \/ \E c \in CallIds, chunk \in GenChunks : Deliver(c, chunk, MaxOverlapOutput)
  \/ \E c \in CallIds : StreamEnd(c)
  \/ \E c \in CallIds, thrown \in Thrown : StreamThrows(c, thrown)
  \/ Cancel

\* generate(), cancel() and the transport with short outputs: what cancel()
\* does depends on no text of a stream
CancelNext ==
  \/ Generate
  \/ \E c \in CallIds, chunk \in GenChunks : Deliver(c, chunk, MaxCancelOutput)
  \/ \E c \in CallIds : StreamEnd(c)
  \/ \E c \in CallIds, thrown \in Thrown : StreamThrows(c, thrown)
  \/ Cancel

\* one generate() at a time, its stream consumed to the end
ExtractNext ==
  \/ Generate
  \/ \E c \in CallIds, chunk \in ExtractChunks : Deliver(c, chunk, MaxRawOutput)
  \/ \E c \in CallIds : StreamEnd(c)

(***************************************************************************)
(* parseStreamChunk and extractTextFromChunks applied to one raw chunk     *)
(***************************************************************************)
NotComputed == [done |-> FALSE, threw |-> FALSE, value |-> <<>>]

\* the characters of the raw chunks that are decoded: line break, blank, a
\* character that is not JSON, and four JSON texts
DecodeChars == {"\n", " ", "#", "null", "7", ObjectLine("x"), ObjectLine("")}

RECURSIVE SeqsUpTo(_, _)
SeqsUpTo(S, n) ==
  IF n = 0 THEN {<<>>}
  ELSE LET shorter == SeqsUpTo(S, n - 1)
       IN  shorter \cup {Append(q, x) : q \in shorter, x \in S}

DecodeInit ==
  /\ decodeEvents = NotComputed
  /\ decodeText = NotComputed

Decode ==
  /\ ~decodeEvents.done
  /\ decodeEvents' = [done |-> TRUE, threw |-> FALSE,
                      value |-> parseStreamChunk(decodeChunk)]
  /\ lastEvent' = "decode"
  /\ UNCHANGED notDecode
  /\ UNCHANGED <<decodeChunk, decodeText>>

ExtractText ==
  /\ decodeEvents.done
  /\ ~decodeText.done
  /\ LET r == extractTextFromChunks(decodeEvents.value)
     IN  decodeText' = [done |-> TRUE, threw |-> r.threw, value |-> r.text]
  /\ lastEvent' = "extractText"
  /\ UNCHANGED notDecode
  /\ UNCHANGED <<decodeChunk, decodeEvents>>

DecodeNext == Decode \/ ExtractText

(***************************************************************************)
(* extractSystemPrompt applied to one accumulated buffer                   *)
(***************************************************************************)
\* the tokens of the buffers: the start marker, the two halves of the end
\* marker, a character of text and a character of white space
BufferTokens == {"<SYSTEM_PROMPT>", "</SYSTEM_", "PROMPT>", "x", "\n"}

MarkerInit ==
  /\ extractBuffer = <<>>
  /\ extractedPrompt = NotComputed

ExtractPrompt ==
  /\ ~extractedPrompt.done
  /\ extractedPrompt' = [done |-> TRUE, threw |-> FALSE,
                         value |-> extractSystemPrompt(extractBuffer)]
  /\ lastEvent' = "extractPrompt"
  /\ UNCHANGED notMarker
  /\ UNCHANGED extractBuffer

MarkerNext == ExtractPrompt

(***************************************************************************)
(* extractTextFromChunks applied to one event list                         *)
(***************************************************************************)
\* the events of the lists: records with the text 'a', with the text 'b', with
\* an empty text (a record without the property text is handled alike: both
\* are falsy in the filter of line 35), a JSON number (a value without the
\* property) and the JSON value null
EventValues ==
  {[kind |-> "object", text |-> <<"a">>],
   [kind |-> "object", text |-> <<"b">>],
   [kind |-> "object", text |-> <<>>],
   [kind |-> "number", text |-> <<>>],
   [kind |-> "null", text |-> <<>>]}

TextInit ==
  /\ textEvents = <<>>
  /\ textResult = NotComputed

ExtractTextOfEvents ==
  /\ ~textResult.done
  /\ LET r == extractTextFromChunks(textEvents)
     IN  textResult' = [done |-> TRUE, threw |-> r.threw, value |-> r.text]
  /\ lastEvent' = "extractTextOfEvents"
  /\ UNCHANGED notText
  /\ UNCHANGED textEvents

TextNext == ExtractTextOfEvents

(***************************************************************************)
(* parseContent: src/packages/web/src/components/Writer/lib/contentParser  *)
(* .ts.  A content string is a sequence of tokens: the characters 'x',     *)
(* blank and line break, the text '# T' (a Markdown header when it starts  *)
(* a line), and three HTML elements written out in full.  No other         *)
(* pattern of isMarkdown and no other replacement of parseMarkdown applies *)
(* to a string of these tokens.                                            *)
(***************************************************************************)
ElementTokens == {"<p>x</p>", "<hr/>", "<span>x</span>"}

ContentTokens == {"x", " ", "\n", "# T"} \cup ElementTokens

TagTokens == {"<p>", "</p>", "<h1>", "</h1>", "<span>", "</span>", "<hr/>"}

\* the tags and the text of a string, element by element
RECURSIVE HtmlTokens(_)
HtmlTokens(content) ==
  IF content = <<>> THEN <<>>
  ELSE (IF Head(content) = "<p>x</p>" THEN <<"<p>", "x", "</p>">>
        ELSE IF Head(content) = "<span>x</span>" THEN <<"<span>", "x", "</span>">>
        ELSE <<Head(content)>>) \o HtmlTokens(Tail(content))

\* isHTML, lines 14-17: an element with its end tag, or a self-closing tag
isHTML(content) ==
  \E i \in 1..Len(Trim(content)) : Trim(content)[i] \in ElementTokens

\* isMarkdown, lines 22-40: of the patterns, the one of headers can match
isMarkdown(content) ==
  LET lines == Split(content, "\n")
  IN  \E i \in 1..Len(lines) : lines[i] # <<>> /\ Head(lines[i]) = "# T"

\* DOMParser.parseFromString (line 49): the child nodes of body.  A text node
\* is the run of characters between two tags; the start tag of a heading
\* closes an open p, and an end tag of p without an open p makes an empty p.
DomStart == [nodes |-> <<>>, open |-> "none", text |-> <<>>]

DomFlushText(st) ==
  IF st.open = "none" /\ st.text # <<>>
    THEN [st EXCEPT !.nodes = Append(@, [kind |-> "text", text |-> st.text]),
                    !.text = <<>>]
    ELSE st

DomCloseElement(st) ==
  IF st.open = "none" THEN st
  ELSE [nodes |-> Append(st.nodes, [kind |-> "element", tag |-> st.open,
                                    text |-> st.text]),
        open |-> "none", text |-> <<>>]

DomOpen(st, tag) == [DomCloseElement(DomFlushText(st)) EXCEPT !.open = tag]

DomStep(st, token) ==
  IF token \notin TagTokens THEN [st EXCEPT !.text = Append(@, token)]
  ELSE IF token = "<p>" THEN DomOpen(st, "p")
  ELSE IF token = "<h1>" THEN DomOpen(st, "h1")
  ELSE IF token = "<span>" THEN DomOpen(st, "span")
  ELSE IF token = "<hr/>"
    THEN LET closed == DomCloseElement(DomFlushText(st))
         IN  [closed EXCEPT !.nodes = Append(@, [kind |-> "element",
                                                 tag |-> "hr", text |-> <<>>])]
  ELSE IF token = "</p>"
    THEN IF st.open = "p" THEN DomCloseElement(st)
         ELSE DomCloseElement(DomOpen(st, "p"))
  ELSE IF (token = "</h1>" /\ st.open = "h1") \/ (token = "</span>" /\ st.open = "span")
    THEN DomCloseElement(st)
  ELSE st

BodyChildNodes(html) ==
  LET tokens == HtmlTokens(html)
      upTo[n \in 0..Len(tokens)] ==
        IF n = 0 THEN DomStart ELSE DomStep(upTo[n - 1], tokens[n])
  IN  DomCloseElement(DomFlushText(upTo[Len(tokens)])).nodes

\* processInlineNode, lines 89-132, of an element whose children are text
InlineContent(text) ==
  IF text # <<>> THEN <<[type |-> "text", text |-> text]>> ELSE <<>>

\* processNode, lines 135-256: the node it returns, or none for null.  A
\* content that is undefined is the empty list.
ProcessNode(node) ==
  IF node.kind = "text"
    THEN IF Trim(node.text) # <<>>
           THEN <<[type |-> "text", text |-> Trim(node.text)]>>
           ELSE <<>>
  ELSE IF node.tag = "p"
    THEN <<[type |-> "paragraph", content |-> InlineContent(node.text)]>>
  ELSE IF node.tag = "h1"
    THEN <<[type |-> "heading", level |-> 1,
            content |-> InlineContent(node.text)]>>
  ELSE IF node.tag = "hr" THEN <<[type |-> "horizontalRule"]>>
  ELSE <<>>

\* the fallback documents of lines 272-281 and 386-389
TextParagraphDoc(text) ==
  [type |-> "doc",
   content |-> <<[type |-> "paragraph",
                  content |-> <<[type |-> "text", text |-> text]>>]>>]

EmptyParagraphDoc == [type |-> "doc", content |-> <<[type |-> "paragraph"]>>]

\* A variant of parseHTML without the fallback for no content.
parseHTMLNoFallback(htmlContent) ==
  LET nodes == BodyChildNodes(htmlContent)
      upTo[n \in 0..Len(nodes)] ==
        IF n = 0 THEN <<>> ELSE upTo[n - 1] \o ProcessNode(nodes[n])
  IN  [type |-> "doc", content |-> upTo[Len(nodes)]]

\* parseHTML, lines 45-299
parseHTML(htmlContent) ==
  LET nodes == BodyChildNodes(htmlContent)
      upTo[n \in 0..Len(nodes)] ==
        IF n = 0 THEN <<>> ELSE upTo[n - 1] \o ProcessNode(nodes[n])
      content == upTo[Len(nodes)]
  IN  IF Len(content) = 0
        THEN TextParagraphDoc(htmlContent)
        ELSE [type |-> "doc", content |-> content]

\* Array.prototype.join(sep) of a list of strings
RECURSIVE JoinWith(_, _)
JoinWith(ss, sep) ==
  IF ss = <<>> THEN <<>>
  ELSE IF Len(ss) = 1 THEN Head(ss)
  ELSE Head(ss) \o <<sep>> \o JoinWith(Tail(ss), sep)

\* String.prototype.split('\n\n')
RECURSIVE SplitBlankLine(_)
SplitBlankLine(s) ==
  LET i == IndexOf(s, <<"\n", "\n">>, 0)
  IN  IF i = -1 THEN <<s>>
      ELSE <<Slice(s, 0, i)>> \o SplitBlankLine(Slice(s, i + 2, Len(s)))

\* lines 311-316: a line that starts with '# ' becomes an h1 element
HeaderLine(line) ==
  IF line # <<>> /\ Head(line) = "# T"
    THEN <<"<h1>", "T">> \o Tail(line) \o <<"</h1>">>
    ELSE line

\* lines 350-362: a part between blank lines that does not start with '<' is
\* wrapped in a p element
ParagraphPart(part) ==
  IF Trim(part) # <<>> /\ Head(Trim(part)) \notin TagTokens \cup ElementTokens
    THEN <<"<p>">> \o Trim(part) \o <<"</p>">>
    ELSE Trim(part)

\* parseMarkdown, lines 304-378
parseMarkdown(markdownContent) ==
  LET lines == Split(markdownContent, "\n")
      headers == JoinWith([i \in 1..Len(lines) |-> HeaderLine(lines[i])], "\n")
      parts == SplitBlankLine(headers)
      html == JoinWith([i \in 1..Len(parts) |-> ParagraphPart(parts[i])], "\n")
  IN  parseHTML(html)

\* A variant of parseContent that tests for Markdown before it tests for HTML.
parseContentMarkdownFirst(content) ==
  IF Trim(content) = <<>> THEN EmptyParagraphDoc
  ELSE IF isMarkdown(Trim(content)) THEN parseMarkdown(Trim(content))
  ELSE IF isHTML(Trim(content)) THEN parseHTML(Trim(content))
  ELSE TextParagraphDoc(content)

\* parseContent, lines 384-412
parseContent(content) ==
  IF Trim(content) = <<>> THEN EmptyParagraphDoc
  ELSE LET trimmedContent == Trim(content)
       IN  IF isHTML(trimmedContent) THEN parseHTML(trimmedContent)
           ELSE IF isMarkdown(trimmedContent) THEN parseMarkdown(trimmedContent)
           ELSE TextParagraphDoc(content)

ParseInit ==
  /\ parseInput = <<>>
  /\ parseResult = NotComputed

ParseContent ==
  /\ ~parseResult.done
  /\ parseResult' = [done |-> TRUE, threw |-> FALSE,
                     value |-> parseContent(parseInput)]
  /\ lastEvent' = "parseContent"
  /\ UNCHANGED notParse
  /\ UNCHANGED parseInput

ParseNext == ParseContent

(***************************************************************************)
(* TranscriptReconciler: MeetingMinutesTranscription.tsx                   *)
(*                                                                         *)
(* useMicrophone and useScreenAudio are not part of the available sources. *)
(* Following the specification, each exposes a reactive value whose last   *)
(* element is the latest segment of the source (a result that is revised   *)
(* keeps its resultId), and clearTranscripts() empties it.  The component  *)
(* reads the last element only, so the model keeps the last element only.  *)
(* endTime is copied into the merged segment and never read: it is left    *)
(* out.                                                                    *)
(***************************************************************************)
StartTimes == {5, 61}

Piece(text, label) == [transcript |-> text, speakerLabel |-> label]

\* what a source emits for a result: a partial revision, a final revision, and
\* a final revision of two pieces with speaker labels
PartialRevision == [isPartial |-> TRUE, transcripts |-> <<Piece("hel", "")>>]
FinalRevision == [isPartial |-> FALSE, transcripts |-> <<Piece("hello", "")>>]
TwoPieceRevision ==
  [isPartial |-> FALSE,
   transcripts |-> <<Piece("hi", "spk_0"), Piece("ok", "spk_1")>>]

RawSegment(id, t, r) ==
  [resultId |-> id, startTime |-> t, isPartial |-> r.isPartial,
   transcripts |-> r.transcripts]

\* the segments the microphone source publishes: result r1 in its three
\* revisions, result r2 at either start time
MicSegments ==
  {RawSegment("r1", 61, r) :
     r \in {PartialRevision, FinalRevision, TwoPieceRevision}}
  \cup {RawSegment("r2", t, FinalRevision) : t \in StartTimes}

\* the segments the screen source publishes: a result whose id is also an id of
\* the microphone source
ScreenSegments == {RawSegment("r1", t, FinalRevision) : t \in StartTimes}

\* clearTranscripts() of a source hook
ClearTranscripts(rawTranscripts) == <<>>

\* lines 228-236 and 251-259: the merged segment built from the latest raw one
SegmentOf(latestSegment, source, sessionId) ==
  [resultId |-> latestSegment.resultId,
   source |-> source,
   startTime |-> latestSegment.startTime,
   isPartial |-> latestSegment.isPartial,
   transcripts |-> latestSegment.transcripts,
   sessionId |-> sessionId]

\* A variant of updateTranscriptionSegments that always appends.
updateTranscriptionSegmentsAppendOnly(prev, newSegment) ==
  Append(prev, newSegment)

\* A variant of updateTranscriptionSegments that moves a replaced entry to the
\* end of the collection.
updateTranscriptionSegmentsMoveToEnd(prev, newSegment) ==
  LET others[n \in 0..Len(prev)] ==
        IF n = 0 THEN <<>>
        ELSE IF prev[n].resultId = newSegment.resultId
                  /\ prev[n].source = newSegment.source
          THEN others[n - 1]
        ELSE Append(others[n - 1], prev[n])
  IN  Append(others[Len(prev)], newSegment)

\* updateTranscriptionSegments, lines 202-221: the new value of the collection
updateTranscriptionSegments(prev, newSegment) ==
  LET matching == {i \in 1..Len(prev) :
                     /\ prev[i].resultId = newSegment.resultId
                     /\ prev[i].source = newSegment.source}
  IN  IF matching # {}
        THEN LET existingIndex == CHOOSE i \in matching : \A j \in matching : i <= j
             IN  [prev EXCEPT ![existingIndex] = newSegment]
        ELSE Append(prev, newSegment)

\* what updateTranscriptionSegments does with newSegment (recorded in lastEvent)
MergeKind(prev, newSegment) ==
  LET matching == {i \in 1..Len(prev) :
                     /\ prev[i].resultId = newSegment.resultId
                     /\ prev[i].source = newSegment.source}
  IN  IF matching = {} THEN "Appended"
      ELSE IF \E i \in matching : prev[i].isPartial THEN "ReplacedPartial"
      ELSE "ReplacedFinal"

\* the effect of lines 224-239, run with these values
MicEffect(segments, micRaw, sessionId) ==
  IF Len(micRaw) > 0
    THEN updateTranscriptionSegments(
           segments, SegmentOf(micRaw[Len(micRaw)], "microphone", sessionId))
    ELSE segments

\* the effect of lines 242-267, run with these values
ScreenEffect(segments, screenRaw, enabled, sessionId) ==
  IF enabled /\ Len(screenRaw) > 0
    THEN updateTranscriptionSegments(
           segments, SegmentOf(screenRaw[Len(screenRaw)], "screen", sessionId))
    ELSE segments

\* the values of the speakers field in the model: '' (the initial one, which
\* gives spk_0 the empty name) and ' Alice' (which names spk_0 and no other)
SpeakerInputs == {<<>>, <<" ", "Alice">>}

\* the string of a sequence of tokens
TextOf(tokens) ==
  LET upTo[n \in 0..Len(tokens)] ==
        IF n = 0 THEN "" ELSE upTo[n - 1] \o tokens[n]
  IN  upTo[Len(tokens)]

\* speakerMapping, lines 102-107: the name of spk_idx is the trimmed part idx
\* of speakers.split(',')
speakerMapping(speakersText) ==
  LET parts == Split(speakersText, ",")
  IN  [idx \in 0..(Len(parts) - 1) |-> TextOf(Trim(parts[idx + 1]))]

\* A variant of the label that shows the tag of the speaker, whatever the
\* mapping.
SpeakerNameRawTag(label) == label

\* speakerMapping[label] || label, line 166
SpeakerName(label) ==
  LET mapping == speakerMapping(speakers)
      keys == {idx \in DOMAIN mapping : label = "spk_" \o ToString(idx)}
  IN  IF keys # {} /\ mapping[CHOOSE idx \in keys : TRUE] # ""
        THEN mapping[CHOOSE idx \in keys : TRUE]
        ELSE label

\* n.toString().padStart(2, '0')
PadStart2(n) == IF n < 10 THEN "0" \o ToString(n) ELSE ToString(n)

\* formatTime, lines 142-146
formatTime(seconds) ==
  LET mins == seconds \div SecondsPerMinute
      secs == seconds % SecondsPerMinute
  IN  PadStart2(mins) \o ":" \o PadStart2(secs)

\* Array.prototype.sort with a comparator: stable.  compare[i, j] is the result
\* of the comparator on the elements i and j of the array; sorted holds indices.
InsertSorted(sorted, x, compare) ==
  LET after == {i \in 1..Len(sorted) : compare[sorted[i], x] > 0}
      pos == IF after = {} THEN Len(sorted) + 1
             ELSE CHOOSE i \in after : \A j \in after : i <= j
  IN  SubSeq(sorted, 1, pos - 1) \o <<x>> \o SubSeq(sorted, pos, Len(sorted))

ArraySort(array, compare) ==
  LET upTo[n \in 0..Len(array)] ==
        IF n = 0 THEN <<>> ELSE InsertSorted(upTo[n - 1], n, compare)
      order == upTo[Len(array)]
  IN  [k \in 1..Len(array) |-> array[order[k]]]

\* A variant of the comparator of the text that compares start times only.
CompareForTextTimeOnly(a, b) == a.startTime - b.startTime

\* the comparator of lines 150-156
CompareForText(a, b) ==
  IF a.sessionId # b.sessionId
    THEN a.sessionId - b.sessionId
    ELSE a.startTime - b.startTime

\* the comparator of lines 412-418
CompareForList(a, b) ==
  IF a.sessionId # b.sessionId
    THEN a.sessionId - b.sessionId
    ELSE a.startTime - b.startTime

\* sortedSegments of transcriptionText, lines 150-156
SortedSegmentsForText(segments) ==
  ArraySort(segments, [i, j \in 1..Len(segments) |->
                         CompareForText(segments[i], segments[j])])

\* the segments in the order the list shows them, lines 411-419
SortedSegmentsForList(segments) ==
  ArraySort(segments, [i, j \in 1..Len(segments) |->
                         CompareForList(segments[i], segments[j])])

\* lines 164-168: the line of one piece
TranscriptLine(segment, transcript) ==
  LET timeStr == "[" \o formatTime(segment.startTime) \o "]"
      partialIndicator == IF segment.isPartial THEN " (...)" ELSE ""
      speakerLabel == IF transcript.speakerLabel # ""
                        THEN SpeakerName(transcript.speakerLabel) \o ": "
                        ELSE ""
  IN  timeStr \o " " \o speakerLabel \o transcript.transcript \o partialIndicator

\* lines 163-170: the lines of one segment; joined by '\n', no pieces give ''
SegmentLines(segment) ==
  IF Len(segment.transcripts) = 0
    THEN <<"">>
    ELSE [k \in 1..Len(segment.transcripts) |->
            TranscriptLine(segment, segment.transcripts[k])]

\* A variant of transcriptionText with one line for each segment: the time
\* prefix, then the pieces one after the other.
transcriptionTextLinePerSegment(segments) ==
  LET sortedSegments == SortedSegmentsForText(segments)
      textOf(seg) ==
        LET upTo[k \in 0..Len(seg.transcripts)] ==
              IF k = 0 THEN "" ELSE upTo[k - 1] \o seg.transcripts[k].transcript
        IN  upTo[Len(seg.transcripts)]
  IN  [i \in 1..Len(sortedSegments) |->
         "[" \o formatTime(sortedSegments[i].startTime) \o "] "
             \o textOf(sortedSegments[i])
             \o (IF sortedSegments[i].isPartial THEN " (...)" ELSE "")]

\* transcriptionText, lines 149-173, as the sequence of its lines
transcriptionText(segments) ==
  LET sortedSegments == SortedSegmentsForText(segments)
      upTo[n \in 0..Len(sortedSegments)] ==
        IF n = 0 THEN <<>> ELSE upTo[n - 1] \o SegmentLines(sortedSegments[n])
  IN  upTo[Len(sortedSegments)]

\* A variant of isNewSession that also holds at the first segment.
IsNewSessionAlsoFirst(sortedSegments, index) ==
  \/ index = 0
  \/ sortedSegments[index + 1].sessionId # sortedSegments[index].sessionId

\* isNewSession, lines 421-424, at the 0-based index of the map callback
IsNewSession(sortedSegments, index) ==
  /\ index > 0
  /\ sortedSegments[index + 1].sessionId # sortedSegments[index].sessionId

SessionMarker == [kind |-> "marker"]

SegmentItem(segment) == [kind |-> "segment", segment |-> segment]

\* the transcript list, lines 411-447: what is rendered, in order, a session
\* marker or a segment
TranscriptList(segments) ==
  LET sortedSegments == SortedSegmentsForList(segments)
      upTo[n \in 0..Len(sortedSegments)] ==
        IF n = 0 THEN <<>>
        ELSE upTo[n - 1]
               \o (IF IsNewSession(sortedSegments, n - 1)
                     THEN <<SessionMarker>> ELSE <<>>)
               \o <<SegmentItem(sortedSegments[n])>>
  IN  upTo[Len(sortedSegments)]

\* startTranscription / startTranscriptionWithStream and stopTranscription of a
\* source hook: the recording flag they leave
StartRecording(recording) == TRUE
StopRecording(recording) == FALSE

\* isRecording, line 270
IsRecording(mic, screen) == mic \/ screen

\* hasTranscriptText, lines 192-194: transcriptionText.trim() !== ''
HasTranscriptText(segments) ==
  \E i \in 1..Len(transcriptionText(segments)) :
    transcriptionText(segments)[i] # ""

\* The microphone source publishes a segment: the render runs the effect of
\* lines 224-239.
MicUpdate(raw) ==
  /\ micRawTranscripts' = <<raw>>
  /\ transcriptionSegments' =
       MicEffect(transcriptionSegments, <<raw>>, currentSessionId)
  /\ lastEvent' = "mic" \o MergeKind(transcriptionSegments,
                                     SegmentOf(raw, "microphone", currentSessionId))
  /\ UNCHANGED <<currentSessionId, screenRawTranscripts, enableScreenAudio,
                 micRecording, screenRecording, speakers>>
  /\ sinceClear' = FALSE
  /\ UNCHANGED notTrans

\* The screen source publishes a segment: the render runs the effect of lines
\* 242-267.
ScreenUpdate(raw) ==
  /\ screenRawTranscripts' = <<raw>>
  /\ transcriptionSegments' =
       ScreenEffect(transcriptionSegments, <<raw>>, enableScreenAudio,
                    currentSessionId)
  /\ lastEvent' = IF enableScreenAudio
                    THEN "screen" \o MergeKind(transcriptionSegments,
                                     SegmentOf(raw, "screen", currentSessionId))
                    ELSE "screenIgnored"
  /\ UNCHANGED <<currentSessionId, micRawTranscripts, enableScreenAudio,
                 micRecording, screenRecording, speakers>>
  /\ sinceClear' = FALSE
  /\ UNCHANGED notTrans

\* setEnableScreenAudio (line 349): the render runs the effect of lines 242-267,
\* of which enableScreenAudio is a dependency.  The settings panel is not
\* rendered while recording (MeetingMinutesSettingsPanel.tsx lines 70-73).
SetEnableScreenAudio(b) ==
  /\ ~IsRecording(micRecording, screenRecording)
  /\ b # enableScreenAudio
  /\ enableScreenAudio' = b
  /\ transcriptionSegments' =
       ScreenEffect(transcriptionSegments, screenRawTranscripts, b,
                    currentSessionId)
  /\ lastEvent' = "setEnableScreenAudio"
  /\ UNCHANGED <<currentSessionId, micRawTranscripts, screenRawTranscripts,
                 micRecording, screenRecording, speakers,
                 sinceClear>>
  /\ UNCHANGED notTrans

\* setSpeakers (line 355): the text field of the settings panel, which is not
\* rendered while recording (MeetingMinutesSettingsPanel.tsx lines 70-73,
\* 165-169).  speakers is a dependency of no effect.
SetSpeakers(speakersText) ==
  /\ ~IsRecording(micRecording, screenRecording)
  /\ speakersText # speakers
  /\ speakers' = speakersText
  /\ lastEvent' = "setSpeakers"
  /\ UNCHANGED <<transcriptionSegments, currentSessionId, micRawTranscripts,
                 screenRawTranscripts, enableScreenAudio, micRecording,
                 screenRecording, sinceClear>>
  /\ UNCHANGED notTrans

\* A variant of the start handler that leaves the buffers of the sources alone.
StartTranscriptionStateNoClear(sessionId, micRaw, screenRaw) ==
  [sessionId |-> sessionId + 1, micRaw |-> micRaw, screenRaw |-> screenRaw]

\* onClickExecStartTranscription, lines 293-299: the state it leaves
StartTranscriptionState(sessionId, micRaw, screenRaw) ==
  [sessionId |-> sessionId + 1,
   micRaw |-> ClearTranscripts(micRaw),
   screenRaw |-> ClearTranscripts(screenRaw)]

\* onClickExecStartTranscription, lines 293-333, and the render after it, which
\* runs both effects: currentSessionId is a dependency of each.  The start
\* button is rendered while not recording (MeetingMinutesControlButtons.tsx
\* lines 46-50).  enableMicAudio is a setting the user edits freely before, and
\* only this handler reads it; streamObtained is the outcome of
\* prepareScreenCapture (lines 306-311).
StartTranscription(enableMicAudio, streamObtained) ==
  /\ ~IsRecording(micRecording, screenRecording)
  /\ currentSessionId < MaxSession
  /\ LET st == StartTranscriptionState(currentSessionId, micRawTranscripts,
                                       screenRawTranscripts)
     IN  /\ currentSessionId' = st.sessionId
         /\ micRawTranscripts' = st.micRaw
         /\ screenRawTranscripts' = st.screenRaw
         /\ transcriptionSegments' =
              ScreenEffect(
                MicEffect(transcriptionSegments, st.micRaw, st.sessionId),
                st.screenRaw, enableScreenAudio, st.sessionId)
  /\ micRecording' = IF enableMicAudio THEN StartRecording(micRecording)
                                       ELSE micRecording
  /\ screenRecording' = IF enableScreenAudio /\ streamObtained
                          THEN StartRecording(screenRecording)
                          ELSE screenRecording
  /\ lastEvent' = "start"
  /\ UNCHANGED <<enableScreenAudio, speakers, sinceClear>>
  /\ UNCHANGED notTrans

\* A variant of handleStopRecording that stops the microphone only.
StopRecordingStateMicOnly(mic, screen) ==
  [mic |-> StopRecording(mic), screen |-> screen]

\* handleStopRecording, lines 336-339: the recording flags it leaves
StopRecordingState(mic, screen) ==
  [mic |-> StopRecording(mic), screen |-> StopRecording(screen)]

\* handleStopRecording, lines 336-339.  The stop button is rendered while
\* recording (MeetingMinutesControlButtons.tsx lines 51-56).  No dependency of
\* an effect of the collection changes.
HandleStopRecording ==
  /\ IsRecording(micRecording, screenRecording)
  /\ LET st == StopRecordingState(micRecording, screenRecording)
     IN  /\ micRecording' = st.mic
         /\ screenRecording' = st.screen
  /\ lastEvent' = "stop"
  /\ UNCHANGED <<transcriptionSegments, currentSessionId, micRawTranscripts,
                 screenRawTranscripts, enableScreenAudio, speakers,
                 sinceClear>>
  /\ UNCHANGED notTrans

\* A variant of handleClear that leaves the buffers of the sources alone.
HandleClearStateNoClear(micRaw, screenRaw) ==
  [segments |-> <<>>, sessionId |-> 0, micRaw |-> micRaw, screenRaw |-> screenRaw]

\* A variant of handleClear that leaves the buffer of the screen source alone.
HandleClearStateKeepsScreen(micRaw, screenRaw) ==
  [segments |-> <<>>,
   sessionId |-> 0,
   micRaw |-> ClearTranscripts(micRaw),
   screenRaw |-> screenRaw]

\* handleClear, lines 273-281: the state it leaves
HandleClearState(micRaw, screenRaw) ==
  [segments |-> <<>>,
   sessionId |-> 0,
   micRaw |-> ClearTranscripts(micRaw),
   screenRaw |-> ClearTranscripts(screenRaw)]

\* what lastEvent records of a clear: whether it had segments of a session
\* after the first to remove
ClearEvent(segments, sessionId) ==
  IF segments # <<>> /\ sessionId > 0 THEN "clearSession" ELSE "clear"

\* handleClear, lines 273-290, and the render after it, which runs both
\* effects.  The clear button is disabled while there is no text and no
\* recording (MeetingMinutesControlButtons.tsx lines 59-63).
HandleClear ==
  /\ \/ HasTranscriptText(transcriptionSegments)
     \/ IsRecording(micRecording, screenRecording)
  /\ LET st == HandleClearState(micRawTranscripts, screenRawTranscripts)
     IN  /\ micRawTranscripts' = st.micRaw
         /\ screenRawTranscripts' = st.screenRaw
         /\ currentSessionId' = st.sessionId
         /\ transcriptionSegments' =
              ScreenEffect(MicEffect(st.segments, st.micRaw, st.sessionId),
                           st.screenRaw, enableScreenAudio, st.sessionId)
  /\ micRecording' = StopRecording(micRecording)
  /\ screenRecording' = StopRecording(screenRecording)
  /\ lastEvent' = ClearEvent(transcriptionSegments, currentSessionId)
  /\ sinceClear' = TRUE
  /\ UNCHANGED <<enableScreenAudio, speakers>>
  /\ UNCHANGED notTrans

TransInit ==
  /\ transcriptionSegments = <<>>
  /\ currentSessionId = 0
  /\ micRawTranscripts = <<>>
  /\ screenRawTranscripts = <<>>
  /\ enableScreenAudio = FALSE
  /\ micRecording = FALSE
  /\ screenRecording = FALSE
  /\ speakers = <<>>
  /\ sinceClear = FALSE

TransNext ==
  \/ \E raw \in MicSegments : MicUpdate(raw)
  \/ \E raw \in ScreenSegments : ScreenUpdate(raw)
  \/ \E b \in BOOLEAN : SetEnableScreenAudio(b)
  \/ \E speakersText \in SpeakerInputs : SetSpeakers(speakersText)
  \/ \E enableMicAudio \in BOOLEAN, streamObtained \in BOOLEAN :
       StartTranscription(enableMicAudio, streamObtained)
  \/ HandleStopRecording
  \/ HandleClear

SchedInit ==
  /\ autoGenerate = FALSE
  /\ generationFrequency = 5
  /\ countdownSeconds = 0
  /\ countdownIntervalRef = FALSE
  /\ intervalTotalSeconds = 0
  /\ liveIntervals = 0
  /\ mounted = TRUE
  /\ shouldGenerateRef = FALSE
  /\ transcriptHasText = FALSE
  /\ minutesLoading = FALSE
  /\ minutesInFlight = 0
  /\ firesWhilePending = 0
  /\ missedAtCompletion = 0

SchedNext ==
  \/ CountdownTick
  \/ \E b \in BOOLEAN : SetAutoGenerate(b)
  \/ \E f \in FrequencyOptions : SetGenerationFrequency(f)
  \/ TranscriptChange
  \/ \E s \in MinutesStyles, p \in CustomPrompts : ManualGeneration(s, p)
  \/ \E o \in {"success", "error"} : CompleteMinutes(o)
  \/ Unmount

(***************************************************************************)
(* MeetingMinutesPage: pages/MeetingMinutesPage.tsx                        *)
(*                                                                         *)
(* The page keeps the input tab shown and, for the transcription tab and   *)
(* the realtime-translation tab, the recording state the component last    *)
(* reported through onRecordingStateChange.  All tab components stay       *)
(* mounted; the tab not shown is hidden with display: none (lines          *)
(* 314-339), so its buttons cannot be pressed and its recording goes on.   *)
(* MeetingMinutesRealtimeTranslation is not part of the available          *)
(* sources: it is taken to report its two recording flags as the           *)
(* transcription component does.                                           *)
(***************************************************************************)
InputMethods == {"transcription", "realtime_translation", "direct", "file"}

RecordingStates == [micRecording : BOOLEAN, screenRecording : BOOLEAN]

\* transcriptionRecording, lines 72-75: the effect of the transcription
\* component (MeetingMinutesTranscription.tsx lines 66-72) reports the flags
\* after every render in which one of them changed, so once the effects of an
\* event have run the state of the page holds the flags of the component
transcriptionRecording ==
  [micRecording |-> micRecording, screenRecording |-> screenRecording]

\* A variant of hasUnsavedChanges that looks at both recording tabs whatever
\* tab is shown.
hasUnsavedChangesAnyTab(method, transcription, realtimeTranslation) ==
  \/ transcription.micRecording
  \/ transcription.screenRecording
  \/ realtimeTranslation.micRecording
  \/ realtimeTranslation.screenRecording

\* hasUnsavedChanges, lines 83-96
hasUnsavedChanges(method, transcription, realtimeTranslation) ==
  IF method = "transcription"
    THEN transcription.micRecording \/ transcription.screenRecording
  ELSE IF method = "realtime_translation"
    THEN realtimeTranslation.micRecording
           \/ realtimeTranslation.screenRecording
  ELSE FALSE

\* usePreventNavigation(hasUnsavedChanges), line 99: navigation is blocked
\* exactly when its argument is true
NavigationBlocked ==
  hasUnsavedChanges(inputMethod, transcriptionRecording,
                    realtimeTranslationRecording)

PageInit ==
  /\ inputMethod = "transcription"
  /\ realtimeTranslationRecording =
       [micRecording |-> FALSE, screenRecording |-> FALSE]

\* the tab buttons, lines 254-297: setInputMethod, whatever is recording
SetInputMethod(method) ==
  /\ method # inputMethod
  /\ inputMethod' = method
  /\ lastEvent' = "setInputMethod"
  /\ UNCHANGED realtimeTranslationRecording
  /\ UNCHANGED notPage

\* handleRealtimeTranslationRecordingStateChange, lines 141-146: the
\* translation component reports a change of its flags; its buttons can be
\* pressed while its tab is shown
HandleRealtimeTranslationRecordingStateChange(state) ==
  /\ inputMethod = "realtime_translation"
  /\ state # realtimeTranslationRecording
  /\ realtimeTranslationRecording' = state
  /\ lastEvent' = "realtimeTranslationRecordingStateChange"
  /\ UNCHANGED inputMethod
  /\ UNCHANGED notPage

\* the start button of the transcription tab, pressed while the tab is shown
PageStartTranscription(enableMicAudio, streamObtained) ==
  /\ inputMethod = "transcription"
  /\ StartTranscription(enableMicAudio, streamObtained)

\* the stop button of the transcription tab, pressed while the tab is shown
PageStopRecording ==
  /\ inputMethod = "transcription"
  /\ HandleStopRecording

\* the screen audio toggle of the transcription tab
PageSetEnableScreenAudio(b) ==
  /\ inputMethod = "transcription"
  /\ SetEnableScreenAudio(b)

PageNext ==
  \/ \E method \in InputMethods : SetInputMethod(method)
  \/ \E state \in RecordingStates :
       HandleRealtimeTranslationRecordingStateChange(state)
  \/ \E enableMicAudio \in BOOLEAN, streamObtained \in BOOLEAN :
       PageStartTranscription(enableMicAudio, streamObtained)
  \/ PageStopRecording
  \/ \E b \in BOOLEAN : PageSetEnableScreenAudio(b)

(***************************************************************************)
(* MermaidWithToggle: components/Mermaid/MermaidWithToggle.tsx             *)
(*                                                                         *)
(* Time is counted in ticks of which TicksPerDelay make the 500 ms of the  *)
(* timeout.  A render with a new code prop runs the cleanup of the         *)
(* auto-switch effect and then the effect; a timeout that is due runs its  *)
(* callback in the tick in which it becomes due.                           *)
(***************************************************************************)
CodeValues == {"a", "b"}

ViewModes == {"code", "diagram"}

\* A variant of the auto-switch effect that arms the timeout whether or not
\* the code differs from the one seen last.
AutoSwitchEffectAlways(newCode, prevCode, timer) ==
  [prevCode |-> newCode, timer |-> TicksPerDelay]

\* the auto-switch effect, lines 96-117, run for a render: the cleanup of the
\* previous run clears the timeout (lines 112-116); a code that differs from
\* prevCodeRef is recorded and arms a new timeout (lines 98-110)
AutoSwitchEffect(newCode, prevCode, timer) ==
  IF newCode # prevCode
    THEN [prevCode |-> newCode, timer |-> TicksPerDelay]
    ELSE [prevCode |-> prevCode, timer |-> 0]

\* mount, lines 84-88 and the first run of the effects: prevCodeRef starts
\* as the code of the first render
MermaidInit ==
  /\ code = "a"
  /\ viewMode = "code"
  /\ zoom = FALSE
  /\ editedCode = "a"
  /\ prevCodeRef = "a"
  /\ timerRef = AutoSwitchEffect("a", "a", 0).timer
  /\ stableTicks = 0
  /\ viewChosen = FALSE

\* the parent renders the component with another code prop: the sync effect
\* (lines 91-93) and the auto-switch effect (lines 96-117) run
CodePropChange(newCode) ==
  /\ newCode # code
  /\ code' = newCode
  /\ editedCode' = newCode
  /\ LET e == AutoSwitchEffect(newCode, prevCodeRef, timerRef)
     IN  /\ prevCodeRef' = e.prevCode
         /\ timerRef' = e.timer
  /\ stableTicks' = 0
  /\ lastEvent' = "codePropChange"
  /\ UNCHANGED <<viewMode, zoom, viewChosen>>
  /\ UNCHANGED notMermaid

\* one tick of time passes; the timeout callback of lines 107-109 runs when
\* its delay has passed
Tick ==
  /\ timerRef > 0 \/ stableTicks < TicksPerDelay
  /\ stableTicks' = Min(stableTicks + 1, TicksPerDelay)
  /\ timerRef' = IF timerRef > 0 THEN timerRef - 1 ELSE 0
  /\ viewMode' = IF timerRef = 1 THEN "diagram" ELSE viewMode
  /\ lastEvent' = "tick"
  /\ UNCHANGED <<code, zoom, editedCode, prevCodeRef, viewChosen>>
  /\ UNCHANGED notMermaid

\* the view buttons, lines 225 and 232
SetViewMode(mode) ==
  /\ viewMode' = mode
  /\ viewChosen' = TRUE
  /\ lastEvent' = "setViewMode"
  /\ UNCHANGED <<code, zoom, editedCode, prevCodeRef, timerRef, stableTicks>>
  /\ UNCHANGED notMermaid

\* a click on the diagram (line 270) opens the zoom overlay; Escape (lines
\* 120-125) and the overlay (lines 307, 313) close it
SetZoom(b) ==
  /\ b # zoom
  /\ b => viewMode = "diagram"
  /\ zoom' = b
  /\ lastEvent' = "setZoom"
  /\ UNCHANGED <<code, viewMode, editedCode, prevCodeRef, timerRef,
                 stableTicks, viewChosen>>
  /\ UNCHANGED notMermaid

\* handleCodeChange, lines 206-212, of the editable code view: the prop is
\* the parent's to change
HandleCodeChange(newCode) ==
  /\ viewMode = "code"
  /\ newCode # editedCode
  /\ editedCode' = newCode
  /\ lastEvent' = "handleCodeChange"
  /\ UNCHANGED <<code, viewMode, zoom, prevCodeRef, timerRef, stableTicks,
                 viewChosen>>
  /\ UNCHANGED notMermaid

MermaidNext ==
  \/ \E newCode \in CodeValues : CodePropChange(newCode)
  \/ Tick
  \/ \E mode \in ViewModes : SetViewMode(mode)
  \/ \E b \in BOOLEAN : SetZoom(b)
  \/ \E newCode \in CodeValues : HandleCodeChange(newCode)

(***************************************************************************)
(* The diagram options of MeetingMinutesGeneration                         *)
(***************************************************************************)
\* DIAGRAM_OPTIONS, MeetingMinutesSettingsModal.tsx lines 22-43
DiagramOptionIds == {"mindmap", "flowchart", "timeline", "sequence"}

Includes(s, x) == \E i \in 1..Len(s) : s[i] = x

\* Array.prototype.filter with (o) => o !== option
RECURSIVE FilterOut(_, _)
FilterOut(s, option) ==
  IF s = <<>> THEN <<>>
  ELSE IF Head(s) = option THEN FilterOut(Tail(s), option)
  ELSE <<Head(s)>> \o FilterOut(Tail(s), option)

\* A variant of toggleDiagramOption that removes the last option too.
toggleDiagramOptionRemovesLast(prev, option) ==
  IF Includes(prev, option) THEN FilterOut(prev, option)
  ELSE Append(prev, option)

\* toggleDiagramOption, lines 52-64: the updater handed to setDiagramOptions
toggleDiagramOption(prev, option) ==
  IF Includes(prev, option)
    THEN IF Len(prev) = 1 THEN prev ELSE FilterOut(prev, option)
    ELSE Append(prev, option)

\* useState(['mindmap']), lines 47-49
DiagramInit ==
  /\ diagramOptions = <<"mindmap">>
  /\ prevDiagramOptions = <<"mindmap">>
  /\ toggledOption = "none"

\* a click on the card of an option (MeetingMinutesSettingsModal.tsx line 254)
ToggleDiagramOption(option) ==
  /\ diagramOptions' = toggleDiagramOption(diagramOptions, option)
  /\ prevDiagramOptions' = diagramOptions
  /\ toggledOption' = option
  /\ lastEvent' = "toggleDiagramOption"
  /\ UNCHANGED notDiagram

DiagramNext == \E option \in DiagramOptionIds : ToggleDiagramOption(option)

(***************************************************************************)
(* MeetingMinutesGeneration with the style settings as state               *)
(***************************************************************************)
\* useState, lines 37-39
StyleInit ==
  /\ minutesStyle = "summary"
  /\ customPrompt = ""

\* the style select of the settings modal, setMinutesStyle (line 294)
SetMinutesStyle(style) ==
  /\ style # minutesStyle
  /\ minutesStyle' = style
  /\ lastEvent' = "setMinutesStyle"
  /\ UNCHANGED customPrompt
  /\ UNCHANGED notStyle

\* the prompt field of the settings modal, setCustomPrompt (line 300)
SetCustomPrompt(prompt) ==
  /\ prompt # customPrompt
  /\ customPrompt' = prompt
  /\ lastEvent' = "setCustomPrompt"
  /\ UNCHANGED minutesStyle
  /\ UNCHANGED notStyle

\* handleManualGeneration, lines 175-208, with the settings of the state
ManualGenerationOfSettings == ManualGeneration(minutesStyle, customPrompt)

\* the scheduler and the settings: the countdown, the transcript and the end
\* of a call do not read the settings
StyleNext ==
  \/ \E style \in MinutesStyles : SetMinutesStyle(style)
  \/ \E prompt \in CustomPrompts : SetCustomPrompt(prompt)
  \/ ManualGenerationOfSettings
  \/ CountdownTick
  \/ \E b \in BOOLEAN : SetAutoGenerate(b)
  \/ \E f \in FrequencyOptions : SetGenerationFrequency(f)
  \/ TranscriptChange
  \/ \E outcome \in {"success", "error"} : CompleteMinutes(outcome)
  \/ Unmount

Init ==
  /\ SchedInit
  /\ GenInit
  /\ DecodeInit
  /\ TransInit
  /\ StyleInit
  /\ DiagramInit
  /\ MermaidInit
  /\ PageInit
  /\ ParseInit
  /\ TextInit
  /\ MarkerInit
  /\ decodeChunk = <<>>
  /\ lastEvent = "init"

\* The regeneration scheduler alone.
SpecSched == Init /\ [][SchedNext]_vars

\* The prompt generation with overlapping calls.
SpecGen == Init /\ [][GenNext]_vars

\* The prompt generation with overlapping calls and cancel().
SpecCancel == Init /\ [][CancelNext]_vars

\* The prompt generation, one call at a time, over every stream of chunks
\* within the bounds.
SpecExtract == Init /\ [][ExtractNext]_vars

\* The transcript reconciler.
SpecTrans == Init /\ [][TransNext]_vars

\* The meeting-minutes page: the input tabs and the recording of two tabs.
SpecPage == Init /\ [][PageNext]_vars

\* The regeneration scheduler with the style settings.
SpecStyle == Init /\ [][StyleNext]_vars

\* The selection of diagram options.
SpecDiagram == Init /\ [][DiagramNext]_vars

\* The Mermaid view toggle.
SpecMermaid == Init /\ [][MermaidNext]_vars

\* The Mermaid view toggle where time passes: a timeout that is pending
\* becomes due, and the event loop then runs its callback.
SpecMermaidFair == SpecMermaid /\ WF_vars(Tick)

\* The decoder applied to every raw chunk within the bounds.
DecodeStart ==
  /\ SchedInit
  /\ GenInit
  /\ DecodeInit
  /\ TransInit
  /\ StyleInit
  /\ DiagramInit
  /\ MermaidInit
  /\ PageInit
  /\ ParseInit
  /\ TextInit
  /\ MarkerInit
  /\ decodeChunk \in SeqsUpTo(DecodeChars, MaxChunkLen)
  /\ lastEvent = "init"

SpecDecode == DecodeStart /\ [][DecodeNext]_vars

\* extractSystemPrompt applied to every buffer within the bounds.
MarkerStart ==
  /\ SchedInit
  /\ GenInit
  /\ DecodeInit
  /\ TransInit
  /\ StyleInit
  /\ DiagramInit
  /\ MermaidInit
  /\ PageInit
  /\ ParseInit
  /\ TextInit
  /\ decodeChunk = <<>>
  /\ extractBuffer \in SeqsUpTo(BufferTokens, MaxBufferLen)
  /\ extractedPrompt = NotComputed
  /\ lastEvent = "init"

SpecMarker == MarkerStart /\ [][MarkerNext]_vars

\* extractTextFromChunks applied to every event list within the bounds.
TextStart ==
  /\ SchedInit
  /\ GenInit
  /\ DecodeInit
  /\ TransInit
  /\ StyleInit
  /\ DiagramInit
  /\ MermaidInit
  /\ PageInit
  /\ ParseInit
  /\ MarkerInit
  /\ decodeChunk = <<>>
  /\ textEvents \in SeqsUpTo(EventValues, MaxEvents)
  /\ textResult = NotComputed
  /\ lastEvent = "init"

SpecText == TextStart /\ [][TextNext]_vars

\* parseContent applied to every content string within the bounds.
ParseStart ==
  /\ SchedInit
  /\ GenInit
  /\ DecodeInit
  /\ TransInit
  /\ StyleInit
  /\ DiagramInit
  /\ MermaidInit
  /\ PageInit
  /\ MarkerInit
  /\ TextInit
  /\ decodeChunk = <<>>
  /\ parseInput \in SeqsUpTo(ContentTokens, MaxContentLen)
  /\ parseResult = NotComputed
  /\ lastEvent = "init"

SpecParse == ParseStart /\ [][ParseNext]_vars

(***************************************************************************)
(* Claims about the regeneration scheduler                                 *)
(***************************************************************************)
CompletionEvents == {"completeSuccess", "completeError"}

C2_AtMostOneGenerationInFlight ==
  /\ minutesInFlight <= 1
  /\ Cardinality(Running) <= 1

\* C2, the part about the minutes generation, which holds of the scheduler: a
\* call is in flight exactly while loading is raised, and there is at most one.
C2_MinutesPart ==
  /\ minutesInFlight <= 1
  /\ minutesLoading <=> minutesInFlight = 1

\* C3, as claimed: once cancel() has been called during a generate() call, no
\* chunk delivered to that call changes generatedPrompt or suggestedMCPServers,
\* whatever was done since (a new generate() included).  The steps of the call
\* looked at are the deliveries of a chunk that decodes without an exception:
\* the loop either breaks (line 178) or handles the chunk.
C3_NoUpdateAfterCancel ==
  [][\A c \in CallIds :
       (/\ calls[c].pc = "running"
        /\ calls[c].cancelled
        /\ calls'[c] # calls[c]
        /\ lastEvent' \in {"chunk", "break"})
       => (/\ generatedPrompt' = generatedPrompt
           /\ suggestedMCPServers' = suggestedMCPServers)]_vars

ServersOrEmpty(parsed) == IF parsed.isNull THEN <<>> ELSE parsed.servers

\* C5, as claimed: after a generate() call has consumed all its chunks, each
\* field the consumer holds equals the field extracted in one shot from the
\* whole accumulated output.
C5_FinalEqualsOneShot ==
  lastFinished.outcome = "success" =>
    /\ generatedPrompt = extractSystemPrompt(lastFinished.rawOutput)
    /\ suggestedMCPServers
         = ServersOrEmpty(parseMCPServers(lastFinished.rawOutput))

\* C5, the part about the list field, which holds.
C5_ListPart ==
  lastFinished.outcome = "success" =>
    suggestedMCPServers
      = ServersOrEmpty(parseMCPServers(lastFinished.rawOutput))

\* the place of the field delimited by start and end in the buffer b, the end
\* marker searched after the start marker: content is what lies between
FieldAfterStart(b, start, end) ==
  LET s == IndexOf(b, start, 0)
      from == s + Len(start)
      e == IF s = -1 THEN -1 ELSE IndexOf(b, end, from)
  IN  [closed |-> s # -1 /\ e # -1,
       content |-> IF s # -1 /\ e # -1 THEN Slice(b, from, e) ELSE <<>>]

\* C6, as claimed: for both marker fields the end marker is searched after the
\* start marker only, so whenever the accumulated output holds the start marker
\* and an end marker after it, the field is closed with the text between them,
\* whatever precedes the start marker.
C6_EndSearchedAfterStart ==
  \A c \in Running :
    LET b == calls[c].rawOutput
        prompt == FieldAfterStart(b, SYSTEM_PROMPT_START_MARKER,
                                  SYSTEM_PROMPT_END_MARKER)
        list == FieldAfterStart(b, MCP_SERVERS_START_MARKER,
                                MCP_SERVERS_END_MARKER)
    IN  /\ prompt.closed => extractSystemPrompt(b) = Trim(prompt.content)
        /\ list.closed =>
             parseMCPServers(b)
               = [isNull |-> FALSE, servers |-> ServerLines(list.content)]

\* C6, the part about the free-text field, which holds.
C6_PromptPart ==
  \A c \in Running :
    LET b == calls[c].rawOutput
        prompt == FieldAfterStart(b, SYSTEM_PROMPT_START_MARKER,
                                  SYSTEM_PROMPT_END_MARKER)
    IN  prompt.closed => extractSystemPrompt(b) = Trim(prompt.content)

(***************************************************************************)
(* Claims about the chunk decoder                                          *)
(***************************************************************************)

\* the places where a line of the chunk starts
LineStarts(chunk) ==
  {p \in 1..(Len(chunk) + 1) : p = 1 \/ chunk[p - 1] = "\n"}

\* the line of the chunk that starts at p
LineAt(chunk, p) ==
  LET breaks == {q \in p..Len(chunk) : chunk[q] = "\n"}
      stop == IF breaks = {} THEN Len(chunk) + 1
              ELSE CHOOSE q \in breaks : \A r \in breaks : q <= r
  IN  SubSeq(chunk, p, stop - 1)

\* the events a chunk stands for: the values of its lines that are valid JSON,
\* in the order of the lines
EventsOf(chunk) ==
  LET valid == {p \in LineStarts(chunk) : JSONParse(LineAt(chunk, p)).ok}
      nth(i) == CHOOSE p \in valid : Cardinality({q \in valid : q < p}) = i - 1
  IN  [i \in 1..Cardinality(valid) |->
         LET v == JSONParse(LineAt(chunk, nth(i)))
         IN  [kind |-> v.kind, text |-> v.text]]

\* C10: parseStreamChunk returns one event for each line of the chunk that is
\* valid JSON, in the order of the lines: N events for N valid records joined
\* by line breaks; a line that is not valid JSON, a blank line or an empty
\* chunk adds nothing and changes nothing for the other lines.
C10_OneEventPerValidLine ==
  decodeEvents.done => decodeEvents.value = EventsOf(decodeChunk)

\* C10, witness: a chunk of three lines, a line that is not JSON between two
\* records, has been decoded into the two records, in order.
C10_Witness ==
  /\ decodeEvents.done
  /\ decodeChunk = <<ObjectLine("x"), "\n", "#", "\n", ObjectLine("")>>
  /\ decodeEvents.value = <<[kind |-> "object", text |-> <<"x">>],
                            [kind |-> "object", text |-> <<>>]>>

(***************************************************************************)
(* Transcript reconciler                                                   *)
(***************************************************************************)
SameKey(a, b) == a.resultId = b.resultId /\ a.source = b.source

MicEvents == {"micAppended", "micReplacedPartial", "micReplacedFinal"}
ScreenEvents == {"screenAppended", "screenReplacedPartial", "screenReplacedFinal"}

\* the segment a step of a source has handed to the collection
Published(micRaw, screenRaw, event) ==
  IF event \in MicEvents
    THEN [source |-> "microphone", raw |-> micRaw[Len(micRaw)]]
    ELSE [source |-> "screen", raw |-> screenRaw[Len(screenRaw)]]

\* C4: no two entries of the merged collection share (resultId, source); a
\* segment published by a source whose key is in the collection replaces that
\* entry in place, whatever the isPartial flags, and leaves the others alone;
\* a segment whose key is not in the collection is appended, and nothing else
\* changes.
C4_ReplaceOrAppend ==
  [][/\ \A i, j \in 1..Len(transcriptionSegments') :
          SameKey(transcriptionSegments'[i], transcriptionSegments'[j]) => i = j
     /\ lastEvent' \in MicEvents \cup ScreenEvents =>
          LET p == Published(micRawTranscripts', screenRawTranscripts', lastEvent')
              old == transcriptionSegments
              new == transcriptionSegments'
              hit == {i \in 1..Len(old) :
                        old[i].resultId = p.raw.resultId /\ old[i].source = p.source}
              merged(i) == /\ new[i].resultId = p.raw.resultId
                           /\ new[i].source = p.source
                           /\ new[i].isPartial = p.raw.isPartial
                           /\ new[i].transcripts = p.raw.transcripts
                           /\ new[i].startTime = p.raw.startTime
          IN  IF hit # {}
                THEN /\ Len(new) = Len(old)
                     /\ \A i \in 1..Len(old) :
                          IF i \in hit THEN merged(i) ELSE new[i] = old[i]
                ELSE /\ Len(new) = Len(old) + 1
                     /\ merged(Len(new))
                     /\ \A i \in 1..Len(old) : new[i] = old[i]]_vars

\* r1 of the microphone came as the partial 'hel' and then as the final
\* 'hello': one entry, with the text 'hello'
C4_Witness ==
  /\ lastEvent = "micReplacedPartial"
  /\ Len(transcriptionSegments) = 1
  /\ transcriptionSegments[1].resultId = "r1"
  /\ ~transcriptionSegments[1].isPartial
  /\ transcriptionSegments[1].transcripts = <<Piece("hello", "")>>

\* C7, as claimed: the rendered text has as many lines as the merged collection
\* has segments.
C7_OneLinePerSegment ==
  Len(transcriptionText(transcriptionSegments)) = Len(transcriptionSegments)

TotalPieces(segments) ==
  LET upTo[n \in 0..Len(segments)] ==
        IF n = 0 THEN 0 ELSE upTo[n - 1] + Len(segments[n].transcripts)
  IN  upTo[Len(segments)]

TwoDigits(n) == ToString(n \div 10) \o ToString(n % 10)

\* what is shown for a speaker tag under the two values of the speakers
\* field: ' Alice' names spk_0 Alice, and a tag without a name is shown as it
\* is
DisplayName(tag) ==
  IF speakers = <<" ", "Alice">> /\ tag = "spk_0" THEN "Alice" ELSE tag

\* C7, as the code has it: the rendered text has one line per piece.  The k
\* pieces of a segment give k consecutive lines, in the order of the pieces and
\* of the displayed segments, each made of the [MM:SS] prefix of the segment's
\* startTime, the speaker of the piece if it has one, the text of that piece
\* alone, and the partial suffix if the segment is partial; so the number of
\* lines is the total number of pieces.
C7_OneLinePerPiece ==
  LET sorted == SortedSegmentsForText(transcriptionSegments)
      lines == transcriptionText(transcriptionSegments)
  IN  /\ Len(lines) = TotalPieces(transcriptionSegments)
      /\ \A i \in 1..Len(sorted) : \A k \in 1..Len(sorted[i].transcripts) :
           LET piece == sorted[i].transcripts[k]
               at == TotalPieces(SubSeq(sorted, 1, i - 1)) + k
               t == sorted[i].startTime
               who == IF piece.speakerLabel = "" THEN ""
                      ELSE DisplayName(piece.speakerLabel) \o ": "
           IN  lines[at] = "[" \o TwoDigits(t \div 60) \o ":" \o TwoDigits(t % 60)
                               \o "] " \o who \o piece.transcript
                               \o (IF sorted[i].isPartial THEN " (...)" ELSE "")

\* a segment of two pieces next to a segment of one piece: three lines
C7_Witness ==
  /\ Len(transcriptionSegments) = 2
  /\ \E i \in 1..2 : Len(transcriptionSegments[i].transcripts) = 2
  /\ Len(transcriptionText(transcriptionSegments)) = 3

\* C8: pressing Start adds one to currentSessionId and leaves the merged
\* collection as it was: the effects it re-runs find the buffers of the sources
\* empty and re-tag nothing.  On every step, an entry that was not in the
\* collection before the step carries the sessionId current after the step.
C8_SessionAttributionStable ==
  [][/\ lastEvent' = "start" =>
          /\ currentSessionId' = currentSessionId + 1
          /\ transcriptionSegments' = transcriptionSegments
     /\ \A j \in 1..Len(transcriptionSegments') :
          \/ \E i \in 1..Len(transcriptionSegments) :
               transcriptionSegments'[j] = transcriptionSegments[i]
          \/ transcriptionSegments'[j].sessionId = currentSessionId']_vars

\* Start has been pressed with segments of both sources in the collection, and
\* they are still of session 0
C8_Witness ==
  /\ lastEvent = "start"
  /\ currentSessionId = 1
  /\ Len(transcriptionSegments) = 2
  /\ \E i, j \in 1..2 : /\ transcriptionSegments[i].source = "microphone"
                        /\ transcriptionSegments[j].source = "screen"
  /\ \A i \in 1..2 : transcriptionSegments[i].sessionId = 0

PositionIn(segments, seg) == CHOOSE i \in 1..Len(segments) : segments[i] = seg

\* C9: the text and the list show the same sequence, which holds the segments
\* of the collection, each once, by sessionId ascending, then by startTime
\* ascending, segments of equal sessionId and startTime in their order of
\* insertion.
C9_SortedBySessionThenTime ==
  LET text == SortedSegmentsForText(transcriptionSegments)
      list == SortedSegmentsForList(transcriptionSegments)
  IN  /\ text = list
      /\ Len(text) = Len(transcriptionSegments)
      /\ \A n \in 1..Len(transcriptionSegments) :
           \E i \in 1..Len(text) : text[i] = transcriptionSegments[n]
      /\ \A i, j \in 1..Len(text) : i < j =>
           \/ text[i].sessionId < text[j].sessionId
           \/ /\ text[i].sessionId = text[j].sessionId
              /\ text[i].startTime < text[j].startTime
           \/ /\ text[i].sessionId = text[j].sessionId
              /\ text[i].startTime = text[j].startTime
              /\ PositionIn(transcriptionSegments, text[i])
                   < PositionIn(transcriptionSegments, text[j])

\* a segment of session 0 with the later start time is shown before two
\* segments of session 1 that have the same, earlier, start time
C9_Witness ==
  LET text == SortedSegmentsForText(transcriptionSegments)
  IN  /\ Len(text) = 3
      /\ text[1].sessionId = 0 /\ text[1].startTime = 61
      /\ text[2].sessionId = 1 /\ text[2].startTime = 5
      /\ text[3].sessionId = 1 /\ text[3].startTime = 5
      /\ text[2].source = "screen"

(***************************************************************************)
(* Errors, extraction outcomes, countdown, cancellation                    *)
(***************************************************************************)
\* C11, as claimed: no chunk line makes the decoding and text extraction of
\* lines 183-184 throw, so no generate() call ends with the error state set by
\* the handling of a chunk.
C11_MalformedLineDropped ==
  /\ lastEvent # "chunkThrows"
  /\ error # "TypeError"

\* v is x without its leading white space
LeftTrimOf(x, v) ==
  \E k \in 0..Len(x) :
    /\ v = SubSeq(x, k + 1, Len(x))
    /\ \A i \in 1..k : x[i] \in {" ", "\n"}
    /\ k < Len(x) => x[k + 1] \notin {" ", "\n"}

\* v is x without its leading and its trailing white space
BothTrimOf(x, v) ==
  \E k \in 0..Len(x) : \E m \in k..Len(x) :
    /\ v = SubSeq(x, k + 1, m)
    /\ \A i \in (1..k) \cup ((m + 1)..Len(x)) : x[i] \in {" ", "\n"}
    /\ k < m => x[k + 1] \notin {" ", "\n"} /\ x[m] \notin {" ", "\n"}

\* C12: extractSystemPrompt of a buffer is empty when the buffer has no start
\* marker; with a start marker and no end marker after the first start marker,
\* it is the rest of the buffer after that start marker without its leading
\* white space (the trailing white space stays); with an end marker after it,
\* it is the text between the start marker and the first such end marker
\* without leading and trailing white space.
C12_ThreeOutcomes ==
  extractedPrompt.done =>
    LET b == extractBuffer
        v == extractedPrompt.value
        starts == {i \in 1..Len(b) : b[i] = "<SYSTEM_PROMPT>"}
    IN  IF starts = {} THEN v = <<>>
        ELSE LET st == CHOOSE i \in starts : \A j \in starts : i <= j
                 ends == {p \in (st + 1)..(Len(b) - 1) :
                            b[p] = "</SYSTEM_" /\ b[p + 1] = "PROMPT>"}
             IN  IF ends = {}
                   THEN LeftTrimOf(SubSeq(b, st + 1, Len(b)), v)
                   ELSE LET en == CHOOSE p \in ends : \A q \in ends : p <= q
                        IN  BothTrimOf(SubSeq(b, st + 1, en - 1), v)

\* an open field whose trailing white space is kept
C12_Witness ==
  /\ extractedPrompt.done
  /\ extractBuffer = <<"x", "<SYSTEM_PROMPT>", "\n", "x", "\n">>
  /\ extractedPrompt.value = <<"x", "\n">>

\* the list field of the buffer b, the end marker looked for after the first
\* start marker: closed or not, and the lines between the markers
ListField(b) ==
  LET starts == {i \in 1..Len(b) : <<b[i]>> = MCP_SERVERS_START_MARKER}
      st == CHOOSE i \in starts : \A j \in starts : i <= j
      ends == {p \in (st + 1)..Len(b) : <<b[p]>> = MCP_SERVERS_END_MARKER}
      en == CHOOSE p \in ends : \A q \in ends : p <= q
  IN  IF starts = {} \/ ends = {}
        THEN [closed |-> FALSE, lines |-> <<>>]
        ELSE [closed |-> TRUE, lines |-> ServerLines(SubSeq(b, st + 1, en - 1))]

\* C13, as claimed: while a generate() call consumes its stream,
\* suggestedMCPServers is empty as long as the list field of the accumulated
\* output is not closed, and from the chunk that closes it on it is the list of
\* the trimmed non-empty lines between the markers, whatever the state of the
\* free-text field.
C13_ListSurfacedWhenClosed ==
  \A c \in Running :
    suggestedMCPServers = ListField(calls[c].rawOutput).lines

\* C13 on the buffers in which no end marker of the list precedes its start
\* marker
C13_WithoutEarlyEndMarker ==
  \A c \in Running :
    LET b == calls[c].rawOutput
    IN  (\A i, j \in 1..Len(b) :
           <<b[i]>> = MCP_SERVERS_END_MARKER /\ <<b[j]>> = MCP_SERVERS_START_MARKER
             => j < i)
        => suggestedMCPServers = ListField(b).lines

\* the free-text field of the buffer b is closed: an end marker follows the
\* first start marker
PromptClosed(b) ==
  \E st \in 1..Len(b) :
    /\ <<b[st]>> = SYSTEM_PROMPT_START_MARKER
    /\ \E p \in (st + 1)..(Len(b) - 1) : <<b[p], b[p + 1]>> = SYSTEM_PROMPT_END_MARKER

\* C14: a chunk handled by a generate() call whose list field is closed leaves
\* the field closed and suggestedMCPServers as it was; a chunk handled by a
\* call whose free-text field is closed leaves the field closed, its extracted
\* value and generatedPrompt as they were.
C14_ClosedFieldStable ==
  [][\A c \in CallIds :
       (calls[c].pc = "running" /\ calls'[c].pc = "running" /\ lastEvent' = "chunk") =>
         LET b == calls[c].rawOutput
             after == calls'[c].rawOutput
         IN  /\ ListField(b).closed =>
                  /\ ListField(after).closed
                  /\ ListField(after).lines = ListField(b).lines
                  /\ suggestedMCPServers' = suggestedMCPServers
             /\ PromptClosed(b) =>
                  /\ PromptClosed(after)
                  /\ extractSystemPrompt(after) = extractSystemPrompt(b)
                  /\ generatedPrompt' = generatedPrompt]_vars

\* the free-text field closed with the value x, and text has arrived since
C14_Witness ==
  /\ lastEvent = "chunk"
  /\ generatedPrompt = <<"x">>
  /\ \E c \in Running :
       calls[c].rawOutput = <<"<SYSTEM_PROMPT>", "x", "</SYSTEM_", "PROMPT>", "x">>

\* C15: while autoGenerate is on, countdownSeconds is between 1 and the
\* cadence in seconds and the interval is set; while it is off, countdownSeconds
\* is 0 and no interval is set.  A tick at a value above 1 takes 1 from
\* countdownSeconds and raises no fire signal; the tick at 1 raises the fire
\* signal and puts countdownSeconds back to the cadence.  The fire signal is
\* raised by such a tick only.
C15_CountdownStateMachine ==
  [][LET cadence == generationFrequency * 60
         armed == autoGenerate /\ generationFrequency > 0
         inRange == IF armed
                      THEN countdownSeconds \in 1..cadence /\ countdownIntervalRef
                      ELSE countdownSeconds = 0 /\ ~countdownIntervalRef
     IN  /\ inRange
         /\ lastEvent' \in {"tick", "fire"} =>
              /\ armed
              /\ UNCHANGED <<autoGenerate, generationFrequency>>
              /\ IF countdownSeconds > 1
                   THEN /\ countdownSeconds' = countdownSeconds - 1
                        /\ lastEvent' = "tick"
                        /\ shouldGenerateRef' = shouldGenerateRef
                        /\ minutesInFlight' = minutesInFlight
                   ELSE /\ countdownSeconds' = cadence
                        /\ lastEvent' = "fire"
         /\ (shouldGenerateRef' /\ ~shouldGenerateRef) => lastEvent' = "fire"
         /\ ~armed => (lastEvent' \notin {"tick", "fire"})]_vars

\* the countdown of one minute has just come to 0: it is back at 60
C15_Witness ==
  /\ lastEvent = "fire"
  /\ autoGenerate
  /\ generationFrequency = 1
  /\ countdownSeconds = 60

\* C16, the part on pending: cancel() leaves isGenerating false, so that the
\* form offers generate() again, and every end of a call (the stream ends, the
\* stream throws, the loop breaks on the abort signal) leaves it false.
C16_PendingCleared ==
  [][/\ lastEvent' = "cancel" => ~isGenerating'
     /\ \A c \in CallIds :
          (calls[c].pc = "running" /\ calls'[c].pc = "free") => ~isGenerating']_vars

\* C16, as claimed: cancel() aborts the transport call in flight and clears
\* pending.  An aborted transport call hands no more text to the call that
\* consumes it: after cancel(), the rawOutput of the cancelled call does not
\* grow.
C16_CancelAbortsTransport ==
  [][/\ lastEvent' = "cancel" => ~isGenerating'
     /\ \A c \in CallIds :
          (calls[c].pc = "running" /\ calls'[c].pc = "free") => ~isGenerating'
     /\ \A c \in CallIds :
          (calls[c].pc = "running" /\ calls[c].cancelled /\ calls'[c].pc = "running")
            => calls'[c].rawOutput = calls[c].rawOutput]_vars

\* C17, as claimed: a call that ends because its transport threw anything but
\* an abort leaves an error in the state of the hook; a call that ends by the
\* abort (the loop breaks on the signal, or the transport throws an AbortError)
\* leaves the error state as it was.
C17_FailureSurfaced ==
  [][/\ lastEvent' \in {"throwsError", "throwsnotAnError"} => error' # "null"
     /\ lastEvent' \in {"break", "throwsAbortError"} => error' = error]_vars

\* C17 for the transport failures that are instances of Error
C17_ErrorInstancesSurfaced ==
  [][/\ lastEvent' = "throwsError" => error' # "null"
     /\ lastEvent' \in {"break", "throwsAbortError"} => error' = error]_vars

\* C17, the outcomes as the consumer sees them: the state of the hook after a
\* call that succeeded, and the same state after a call that was cancelled
\* (both states are reachable).
C17_ObservedAfterSuccess ==
  /\ lastFinished.outcome = "success"
  /\ Running = {}
  /\ <<generatedPrompt, suggestedMCPServers, isGenerating, error>>
       = <<<<"x">>, <<>>, FALSE, "null">>

C17_ObservedAfterCancel ==
  /\ lastFinished.outcome = "aborted"
  /\ Running = {}
  /\ <<generatedPrompt, suggestedMCPServers, isGenerating, error>>
       = <<<<"x">>, <<>>, FALSE, "null">>

\* C18: cancel() can always be called and sets no error.  Called right after a
\* cancel(), or while no generate() call is open, it changes nothing in the
\* state of the hook.
C18_CancelIdempotent ==
  [][/\ ENABLED Cancel
     /\ lastEvent' = "cancel" =>
          /\ error' = error
          /\ (lastEvent = "cancel" \/ Running = {}) => UNCHANGED genVars]_vars

\* cancel() has been called on an open call: a second cancel() finds the
\* controller aborted and isGenerating false
C18_Witness ==
  /\ lastEvent = "cancel"
  /\ abortControllerRef = "aborted"
  /\ ~isGenerating
  /\ \E c \in Running : calls[c].cancelled

\* C19: after Clear and the effects it re-runs the merged collection is
\* empty, the rendered text is empty and currentSessionId is 0.
C19_ClearEmpties ==
  lastEvent \in {"clear", "clearSession"} =>
    /\ transcriptionSegments = <<>>
    /\ transcriptionText(transcriptionSegments) = <<>>
    /\ currentSessionId = 0

\* Clear has removed segments of a session after the first, with the screen
\* source enabled
C19_Witness ==
  /\ lastEvent = "clearSession"
  /\ enableScreenAudio
  /\ transcriptionSegments = <<>>
  /\ currentSessionId = 0

\* C20: Stop leaves both sources not recording, and leaves the merged
\* collection, currentSessionId and the rendered text as they were.
C20_StopKeepsTranscript ==
  [][lastEvent' = "stop" =>
       /\ ~micRecording' /\ ~screenRecording'
       /\ transcriptionSegments' = transcriptionSegments
       /\ currentSessionId' = currentSessionId
       /\ transcriptionText(transcriptionSegments')
            = transcriptionText(transcriptionSegments)]_vars

\* Stop has been pressed while both sources were recording into a collection
\* with a segment of each
C20_Witness ==
  /\ lastEvent = "stop"
  /\ ~micRecording /\ ~screenRecording
  /\ enableScreenAudio
  /\ currentSessionId = 1
  /\ \E i, j \in 1..Len(transcriptionSegments) :
       /\ transcriptionSegments[i].source = "microphone"
       /\ transcriptionSegments[j].source = "screen"
       /\ transcriptionSegments[i].sessionId = 1
       /\ transcriptionSegments[j].sessionId = 1

\* C21: while autoGenerate is off the countdown shows 0, no interval is set,
\* no tick happens and no fire signal is raised; switching it off leaves the
\* generation call in flight and loading as they were, and a call in flight can
\* always complete.
C21_DisableStopsCountdownOnly ==
  [][/\ ~autoGenerate' => countdownSeconds' = 0 /\ ~countdownIntervalRef'
     /\ ~autoGenerate =>
          /\ lastEvent' \notin {"tick", "fire"}
          /\ shouldGenerateRef' => shouldGenerateRef
     /\ autoGenerate /\ ~autoGenerate' =>
          /\ minutesInFlight' = minutesInFlight
          /\ minutesLoading' = minutesLoading
     /\ minutesInFlight > 0 =>
          ENABLED (\E o \in {"success", "error"} : CompleteMinutes(o))]_vars

\* autoGenerate has been switched off while a generation call was in flight
C21_Witness ==
  /\ lastEvent = "setAutoGenerate"
  /\ ~autoGenerate
  /\ minutesInFlight = 1
  /\ minutesLoading
  /\ countdownSeconds = 0
  /\ ~countdownIntervalRef

RECURSIVE SegmentsOfList(_)
SegmentsOfList(list) ==
  IF list = <<>> THEN <<>>
  ELSE (IF Head(list).kind = "segment" THEN <<Head(list).segment>> ELSE <<>>)
         \o SegmentsOfList(Tail(list))

\* C23: in the rendered list a session marker stands exactly between two
\* segments, adjacent in sorted order, whose sessionIds differ: never first,
\* never between two segments of one session; the markers are one fewer than
\* the sessionIds present (none for an empty collection).
C23_MarkerAtSessionChange ==
  LET list == TranscriptList(transcriptionSegments)
      markers == {k \in 1..Len(list) : list[k].kind = "marker"}
      sessions == {transcriptionSegments[i].sessionId :
                     i \in 1..Len(transcriptionSegments)}
  IN  /\ SegmentsOfList(list) = SortedSegmentsForList(transcriptionSegments)
      /\ list # <<>> => list[1].kind = "segment"
      /\ \A k \in markers :
           /\ 1 < k /\ k < Len(list)
           /\ list[k - 1].kind = "segment" /\ list[k + 1].kind = "segment"
           /\ list[k - 1].segment.sessionId # list[k + 1].segment.sessionId
      /\ \A k \in 1..(Len(list) - 1) :
           list[k].kind = "segment" /\ list[k + 1].kind = "segment" =>
             list[k].segment.sessionId = list[k + 1].segment.sessionId
      /\ Cardinality(markers) =
           IF sessions = {} THEN 0 ELSE Cardinality(sessions) - 1

\* the list shows two segments of one session, then a marker, then a segment
\* of the next session
C23_Witness ==
  LET list == TranscriptList(transcriptionSegments)
  IN  /\ Len(list) >= 4
      /\ list[1].kind = "segment" /\ list[2].kind = "segment"
      /\ list[3].kind = "marker" /\ list[4].kind = "segment"
      /\ list[2].segment.sessionId = 0
      /\ list[4].segment.sessionId = 1

\* the text after the first start marker of the list field of the buffer b,
\* when no end marker follows it: the field is open
ListOpen(b) ==
  LET starts == {i \in 1..Len(b) : <<b[i]>> = MCP_SERVERS_START_MARKER}
      st == CHOOSE i \in starts : \A j \in starts : i <= j
  IN  IF starts = {}
        THEN [open |-> FALSE, text |-> <<>>]
        ELSE [open |-> \A p \in (st + 1)..Len(b) :
                         <<b[p]>> # MCP_SERVERS_END_MARKER,
              text |-> SubSeq(b, st + 1, Len(b))]

\* the text after the first start marker of the free-text field of the buffer
\* b, when no end marker follows it
PromptOpen(b) ==
  LET starts == {i \in 1..Len(b) : <<b[i]>> = SYSTEM_PROMPT_START_MARKER}
      st == CHOOSE i \in starts : \A j \in starts : i <= j
  IN  IF starts = {}
        THEN [open |-> FALSE, text |-> <<>>]
        ELSE [open |-> ~PromptClosed(b), text |-> SubSeq(b, st + 1, Len(b))]

\* C24, as claimed: when the stream of a generate() call ends, no error is set;
\* if the free-text field is open, generatedPrompt is its open text without
\* leading white space; if the list field is open with text in it, the consumer
\* holds that text: suggestedMCPServers is not empty.
C24_OpenValuesHeldAtEnd ==
  lastEvent = "streamEnd" =>
    LET b == lastFinished.rawOutput
    IN  /\ error = "null"
        /\ PromptOpen(b).open => LeftTrimOf(PromptOpen(b).text, generatedPrompt)
        /\ (ListOpen(b).open /\ Trim(ListOpen(b).text) # <<>>) =>
             suggestedMCPServers # <<>>

\* C24, the parts that hold: no error, and the open value of the free-text
\* field.
C24_OpenPromptHeldAtEnd ==
  lastEvent = "streamEnd" =>
    LET b == lastFinished.rawOutput
    IN  /\ error = "null"
        /\ PromptOpen(b).open => LeftTrimOf(PromptOpen(b).text, generatedPrompt)

\* what the code does with an open list field: nothing of it is surfaced
C24_OpenListNotSurfaced ==
  lastEvent = "streamEnd" /\ ListOpen(lastFinished.rawOutput).open =>
    suggestedMCPServers = <<>>

\* the call that began last, where it can be told from the state: the one
\* running call that no cancel() has reached (cancel() reaches every call that
\* is open), all other open calls having been reached by one
NewestCall(d) ==
  /\ calls[d].pc = "running" /\ ~calls[d].cancelled
  /\ \A c \in CallIds \ {d} : calls[c].pc = "running" => calls[c].cancelled

\* the values extractSystemPrompt gives on the prefixes of the buffer b
PromptValuesOf(b) == {extractSystemPrompt(SubSeq(b, 1, k)) : k \in 0..Len(b)}

\* the values parseMCPServers gives on the prefixes of the buffer b
ServerValuesOf(b) ==
  {ServersOrEmpty(parseMCPServers(SubSeq(b, 1, k))) : k \in 0..Len(b)}

\* C25, as claimed: right after generate() has begun both fields are empty and
\* the cache of the list field is cleared, and while the call that began last
\* is open the two fields hold values extracted from its own text.
C25_FieldsOfNewCallOnly ==
  /\ lastEvent = "generate" =>
       /\ generatedPrompt = <<>>
       /\ suggestedMCPServers = <<>>
       /\ ~mcpServersParsedRef
  /\ \A d \in CallIds :
       NewestCall(d) =>
         /\ generatedPrompt \in PromptValuesOf(calls[d].rawOutput)
         /\ suggestedMCPServers \in ServerValuesOf(calls[d].rawOutput)

\* C25, the part that holds with overlapping calls: what generate() resets.
C25_ResetAtGenerate ==
  lastEvent = "generate" =>
    /\ generatedPrompt = <<>>
    /\ suggestedMCPServers = <<>>
    /\ ~mcpServersParsedRef
    /\ error = "null"

\* C26: extractTextFromChunks of a list of records and of values without the
\* property text throws nothing and returns the texts of the events whose text
\* is not empty, one after the other in the order of the events; the empty
\* list gives the empty string, and [{text:'a'},{text:''},{text:'b'}] gives
\* 'ab'.  (Each text of the lists is one token.)
C26_TextsInEventOrder ==
  (textResult.done /\ \A i \in 1..Len(textEvents) : textEvents[i].kind # "null")
  => LET withText == {i \in 1..Len(textEvents) :
                        /\ textEvents[i].kind = "object"
                        /\ textEvents[i].text # <<>>}
         r == textResult.value
     IN  /\ ~textResult.threw
         /\ Len(r) = Cardinality(withText)
         /\ \A i \in withText :
              r[Cardinality({j \in withText : j <= i})] = textEvents[i].text[1]
         /\ textEvents = <<>> => r = <<>>
         /\ textEvents = <<[kind |-> "object", text |-> <<"a">>],
                           [kind |-> "object", text |-> <<>>],
                           [kind |-> "object", text |-> <<"b">>]>>
              => r = <<"a", "b">>

\* the list [{text:'a'},{text:''},{text:'b'}] has been handed to
\* extractTextFromChunks
C26_Witness ==
  /\ textResult.done
  /\ textEvents = <<[kind |-> "object", text |-> <<"a">>],
                    [kind |-> "object", text |-> <<>>],
                    [kind |-> "object", text |-> <<"b">>]>>
  /\ textResult.value = <<"a", "b">>

\* C27: the line rendered for a piece of a segment is the time prefix, then
\* the label, then the text of the piece, then the suffix, where the label is
\* empty for a piece without a speaker tag, the name the speakers field gives
\* the tag followed by ': ' for a tag it names, and the tag itself followed by
\* ': ' for any other tag, and the suffix is ' (...)' when the segment is
\* partial and empty when it is not.
C27_LabelAndPartialSuffix ==
  LET text == transcriptionText(transcriptionSegments)
  IN
  \A i \in 1..Len(transcriptionSegments) :
    LET segment == transcriptionSegments[i]
        prefix == "[" \o TwoDigits(segment.startTime \div 60) \o ":"
                      \o TwoDigits(segment.startTime % 60) \o "] "
    IN  \A k \in 1..Len(segment.transcripts) :
          LET piece == segment.transcripts[k]
              label == IF piece.speakerLabel = "" THEN ""
                       ELSE DisplayName(piece.speakerLabel) \o ": "
              line == TranscriptLine(segment, piece)
          IN  /\ segment.isPartial =>
                   line = prefix \o label \o piece.transcript \o " (...)"
              /\ ~segment.isPartial =>
                   line = prefix \o label \o piece.transcript
              /\ \E n \in 1..Len(text) : text[n] = line

\* with ' Alice' in the speakers field, the text shows a line of the named
\* speaker, a line of a speaker without a name and a line without a speaker
C27_Witness ==
  /\ speakers = <<" ", "Alice">>
  /\ \E a, b, c \in 1..Len(transcriptionText(transcriptionSegments)) :
       /\ transcriptionText(transcriptionSegments)[a] = "[01:01] Alice: hi"
       /\ transcriptionText(transcriptionSegments)[b] = "[01:01] spk_1: ok"
       /\ transcriptionText(transcriptionSegments)[c] = "[00:05] hello"

\* with the speakers field empty, the text shows the tag of a speaker that
\* ' Alice' would name
C27_WitnessUnnamed ==
  /\ speakers = <<>>
  /\ \E a \in 1..Len(transcriptionText(transcriptionSegments)) :
       transcriptionText(transcriptionSegments)[a] = "[01:01] spk_0: hi"

\* C28: parseContent returns a document with at least one content node; a
\* blank input gives the single empty paragraph; an input holding an HTML
\* element is parsed by parseHTML; otherwise an input with a Markdown header
\* line is parsed by parseMarkdown; otherwise the result is one paragraph
\* whose only text node is the input as given, untrimmed
HoldsElement(content) ==
  \E i \in 1..Len(content) : content[i] \in ElementTokens

HoldsHeaderLine(content) ==
  \E i \in 1..Len(content) :
    content[i] = "# T" /\ (i = 1 \/ content[i - 1] = "\n")

C28_DispatchOnKind ==
  parseResult.done =>
    LET doc == parseResult.value
        trimmed == Trim(parseInput)
    IN  /\ ~parseResult.threw
        /\ doc.type = "doc"
        /\ Len(doc.content) >= 1
        /\ CASE trimmed = <<>> ->
                  doc.content = <<[type |-> "paragraph"]>>
             [] trimmed # <<>> /\ HoldsElement(trimmed) ->
                  doc = parseHTML(trimmed)
             [] trimmed # <<>> /\ ~HoldsElement(trimmed)
                  /\ HoldsHeaderLine(trimmed) ->
                  doc = parseMarkdown(trimmed)
             [] OTHER ->
                  doc.content =
                    <<[type |-> "paragraph",
                       content |-> <<[type |-> "text", text |-> parseInput]>>]>>

\* an input with surrounding whitespace and a header was parsed as Markdown
C28_Witness ==
  /\ parseResult.done
  /\ parseInput = <<" ", "# T", "\n">>
  /\ parseResult.value.content[1].type = "heading"

\* an input holding both a header and an element was parsed as HTML
C28_WitnessHtmlFirst ==
  /\ parseResult.done
  /\ parseInput = <<"# T", "\n", "<p>x</p>">>
  /\ parseResult.value = parseHTML(parseInput)
  /\ parseResult.value # parseMarkdown(parseInput)

\* a plain input with surrounding whitespace is kept untrimmed
C28_WitnessPlain ==
  /\ parseResult.done
  /\ parseInput = <<" ", "x", " ">>
  /\ parseResult.value.content[1].content[1].text = <<" ", "x", " ">>

\* C29: whenever the microphone or the screen recording of the transcription
\* component or of the realtime-translation component is active, navigation
\* away from the page is blocked (hasUnsavedChanges is true), whatever input
\* tab is shown
C29_RecordingBlocksNavigation ==
  (\/ transcriptionRecording.micRecording
   \/ transcriptionRecording.screenRecording
   \/ realtimeTranslationRecording.micRecording
   \/ realtimeTranslationRecording.screenRecording) => NavigationBlocked

\* C29, the part the page does provide: a recording of the tab that is shown
\* blocks navigation
C29_ShownTabRecordingBlocks ==
  /\ (inputMethod = "transcription"
        /\ (micRecording \/ screenRecording)) => NavigationBlocked
  /\ (inputMethod = "realtime_translation"
        /\ (realtimeTranslationRecording.micRecording
              \/ realtimeTranslationRecording.screenRecording))
       => NavigationBlocked

\* the microphone of the transcription tab records while another tab is shown
C29_RecordingBehindOtherTab ==
  /\ micRecording
  /\ inputMethod = "direct"
  /\ lastEvent = "setInputMethod"

\* C30: MermaidWithToggle starts in code view and, whenever its code prop has
\* stayed unchanged for 500 ms, code that never changed after mount included,
\* the view eventually becomes 'diagram' (a view the user chose with the
\* buttons aside)
C30_StableLeadsToDiagram ==
  (stableTicks = TicksPerDelay /\ ~viewChosen)
    ~> (viewMode = "diagram" \/ viewChosen)

\* C30, for a code prop that changed after mount: the switch armed by the
\* change is due when the code has stayed unchanged for 500 ms, and it then
\* happens unless the code changes first
C30_PendingSwitchDueAtStability ==
  timerRef > 0 => timerRef + stableTicks = TicksPerDelay

C30_PendingSwitchHappens ==
  (timerRef > 0 /\ lastEvent = "tick")
    ~> (viewMode = "diagram" \/ lastEvent = "codePropChange")

\* C30, the view a changing code keeps: a change of the code prop cancels the
\* pending switch and arms a new one, and the view leaves 'code' by itself
\* only in a tick that completes 500 ms without a change
C30_ChangeCancelsPendingSwitch ==
  [][/\ code' # code => (timerRef' = TicksPerDelay /\ viewMode' = viewMode)
     /\ (viewMode = "code" /\ viewMode' = "diagram" /\ ~viewChosen')
          => (lastEvent' = "tick" /\ stableTicks' = TicksPerDelay)]_vars

\* C30, the start: the component is mounted in code view
C30_StartsInCodeView ==
  lastEvent = "init" => viewMode = "code"

\* the code prop has been stable for 500 ms since mount and the view is
\* still 'code' with no switch pending
C30_StableSinceMountInCode ==
  /\ stableTicks = TicksPerDelay
  /\ lastEvent = "tick"
  /\ code = prevCodeRef
  /\ timerRef = 0
  /\ viewMode = "code"
  /\ ~viewChosen

(***************************************************************************)
(* Claims about the diagram options                                        *)
(***************************************************************************)
NoDuplicate(s) == \A i, j \in 1..Len(s) : s[i] = s[j] => i = j

\* C31: after any sequence of toggleDiagramOption calls starting from
\* ['mindmap'] the selection is never empty and holds no duplicate; toggling
\* the only selected option leaves the selection as it was, toggling one of
\* several selected options removes exactly it, toggling an unselected option
\* appends exactly it
C31_SelectionNeverEmpty ==
  /\ Len(diagramOptions) >= 1
  /\ NoDuplicate(diagramOptions)
  /\ \A i \in 1..Len(diagramOptions) : diagramOptions[i] \in DiagramOptionIds
  /\ toggledOption # "none" =>
       LET prev == prevDiagramOptions
           option == toggledOption
       IN  /\ prev = <<option>> => diagramOptions = prev
           /\ (Includes(prev, option) /\ Len(prev) > 1) =>
                /\ Len(diagramOptions) = Len(prev) - 1
                /\ ~Includes(diagramOptions, option)
                /\ \E k \in 1..Len(prev) :
                     /\ prev[k] = option
                     /\ diagramOptions =
                          SubSeq(prev, 1, k - 1) \o SubSeq(prev, k + 1, Len(prev))
           /\ ~Includes(prev, option) =>
                diagramOptions = prev \o <<option>>

\* the only selected option was toggled and is still selected
C31_Witness ==
  /\ toggledOption = "flowchart"
  /\ prevDiagramOptions = <<"flowchart">>
  /\ diagramOptions = <<"flowchart">>

\* one of three selected options was toggled and the other two remain
C31_WitnessRemoved ==
  /\ toggledOption = "timeline"
  /\ prevDiagramOptions = <<"mindmap", "timeline", "sequence">>
  /\ diagramOptions = <<"mindmap", "sequence">>

(***************************************************************************)
(* Claims about successive prompt generations                              *)
(***************************************************************************)
\* C32: when cancel() is followed by a new generate() while the stream of the
\* cancelled call is still pending, the end of the cancelled call neither
\* sets isGenerating to false nor clears the abort handle of the new call:
\* while the call that began last is in flight and not cancelled,
\* isGenerating is true and the handle is the live controller cancel() aborts
C32_NewCallKeepsItsState ==
  \A d \in CallIds :
    NewestCall(d) => (isGenerating /\ abortControllerRef = "live")

\* C32, the writes: a step of a call that cancel() has reached changes
\* neither generatedPrompt nor suggestedMCPServers
C32_CancelledCallWritesNothing ==
  [][\A c \in CallIds :
       (calls[c].pc = "running" /\ calls[c].cancelled /\ calls'[c] # calls[c])
         => /\ generatedPrompt' = generatedPrompt
            /\ suggestedMCPServers' = suggestedMCPServers]_vars

\* C32, cancel(): after cancel() no open call goes on taking chunks, that is,
\* the loop of every open call sees an aborted signal
C32_CancelStopsOpenCalls ==
  (lastEvent = "cancel" /\ Running # {}) => AbortSeen

(***************************************************************************)
(* Claims about the origin of a generation                                 *)
(***************************************************************************)
\* a generation call starts in the step
GenerationStarts == minutesInFlight' > minutesInFlight

\* C33: a scheduled generation starts only as the immediate consequence of a
\* countdown expiry: a generation that is not a manual one starts in the step
\* of the tick that raised the fire signal, never in a later step (a change
\* of the transcript, of autoGenerate or of the cadence, the end of a call)
C33_ScheduledStartOnlyAtExpiry ==
  [][(GenerationStarts /\ lastEvent' # "manualStart")
       => lastEvent' = "fire"]_vars

\* C33, the same on the state: a fire signal is never left standing once the
\* step that raised it is over
C33_NoStandingFireSignal ==
  shouldGenerateRef => lastEvent = "fire"

\* C33, what the scheduler does provide: a fire signal raised with text, with
\* autoGenerate on, is consumed in the step that raised it
C33_FireWithTextConsumedAtOnce ==
  (lastEvent = "fire" /\ transcriptHasText) => ~shouldGenerateRef

\* C35: no generation call starts with an empty or whitespace-only
\* transcript, by the manual path or by the countdown path, and a scheduled
\* generation never starts while autoGenerate is off: the transcript and the
\* switch are those of the step in which the call is issued
C35_NoStartWithoutTranscript ==
  [][GenerationStarts =>
       /\ transcriptHasText'
       /\ lastEvent' = "manualStart" => transcriptHasText
       /\ lastEvent' # "manualStart" => autoGenerate']_vars

\* a scheduled generation has started at a countdown expiry
C35_Witness ==
  /\ lastEvent = "fire"
  /\ minutesLoading
  /\ minutesInFlight = 1
  /\ transcriptHasText
  /\ autoGenerate

\* a manual generation has started while autoGenerate is off
C35_WitnessManual ==
  /\ lastEvent = "manualStart"
  /\ minutesLoading
  /\ transcriptHasText
  /\ ~autoGenerate

\* C34: no generation call of any origin starts while the minutes style is
\* 'custom' and the custom prompt is empty: the guard of the manual request
\* holds for the generations the countdown starts as well
C34_NoStartWithEmptyCustomPrompt ==
  [][GenerationStarts
       => ~(minutesStyle' = "custom" /\ customPrompt' = "")]_vars

\* C34, the manual path: a manual request starts no call with the style
\* 'custom' and an empty prompt
C34_ManualGuard ==
  [][(GenerationStarts /\ lastEvent' = "manualStart")
       => ~(minutesStyle = "custom" /\ customPrompt = "")]_vars

\* a manual request with the style 'custom' and an empty prompt was ignored
\* though there was text and no call in flight
C34_ManualRejected ==
  /\ lastEvent = "manualIgnored"
  /\ minutesStyle = "custom"
  /\ customPrompt = ""
  /\ transcriptHasText
  /\ ~minutesLoading

(***************************************************************************)
(* Claims about the values of the open free-text field                     *)
(***************************************************************************)
IsPrefixOf(p, s) == Len(p) <= Len(s) /\ SubSeq(s, 1, Len(p)) = p

\* C36: while the free-text field is open, the value surfaced to the consumer
\* is, with its trailing white space removed, a prefix of the value of the
\* field after the next chunk, open or closed: no surfaced text is retracted
\* later, and no part of an end sentinel that arrives split over two chunks
\* is shown as content of the field
C36_SurfacedNeverRetracted ==
  [][\A d \in CallIds :
       (/\ calls[d].pc = "running"
        /\ calls'[d].pc = "running"
        /\ PromptOpen(calls[d].rawOutput).open
        /\ calls'[d].rawOutput # calls[d].rawOutput)
         => IsPrefixOf(TrimEnd(generatedPrompt),
                       extractSystemPrompt(calls'[d].rawOutput))]_vars

\* C36, the steps that leave the field open: the surfaced value only grows
C36_OpenValueGrows ==
  [][\A d \in CallIds :
       (/\ calls[d].pc = "running"
        /\ calls'[d].pc = "running"
        /\ PromptOpen(calls[d].rawOutput).open
        /\ PromptOpen(calls'[d].rawOutput).open)
         => IsPrefixOf(TrimEnd(generatedPrompt), generatedPrompt')]_vars

\* the first half of the end sentinel is shown as content of the open field
C36_SentinelPartSurfaced ==
  /\ \E d \in CallIds :
       /\ calls[d].pc = "running"
       /\ PromptOpen(calls[d].rawOutput).open
  /\ generatedPrompt = <<"x", "</SYSTEM_">>

(***************************************************************************)
(* Claims about Clear and about the frame of an upsert                     *)
(***************************************************************************)
\* C37: Clear is durable: from Clear on, as long as neither source publishes
\* a segment, the merged collection and the rendered text stay empty under
\* every operation (Start, Stop, the settings, the effects re-run by the
\* reset of currentSessionId): the last segment seen before Clear is not
\* inserted again
C37_ClearIsDurable ==
  sinceClear =>
    /\ transcriptionSegments = <<>>
    /\ transcriptionText(transcriptionSegments) = <<>>
    /\ ~HasTranscriptText(transcriptionSegments)

\* recording was started again after Clear, which changes currentSessionId
\* and re-runs both effects, with the screen source enabled
C37_Witness ==
  /\ sinceClear
  /\ lastEvent = "start"
  /\ currentSessionId = 1
  /\ enableScreenAudio
  /\ micRecording

\* the screen source was switched on after Clear, which re-runs its effect
C37_WitnessSetting ==
  /\ sinceClear
  /\ lastEvent = "setEnableScreenAudio"
  /\ enableScreenAudio

KeyOf(segment) == <<segment.resultId, segment.source>>

\* C38: an upsert changes only the entry with the key of the segment: every
\* other entry stays as it was and where it was, a replaced entry keeps its
\* position, an appended entry has a key the collection did not hold and goes
\* to the end, so the size grows by at most one; and no step other than Clear
\* makes the collection shorter
C38_UpsertFrame ==
  [][LET old == transcriptionSegments
         new == transcriptionSegments'
         changed == {i \in 1..Len(old) : i <= Len(new) /\ new[i] # old[i]}
     IN  lastEvent' \notin {"clear", "clearSession"} =>
           /\ Len(old) <= Len(new)
           /\ Len(new) <= Len(old) + 1
           /\ \A i \in 1..Len(old) : KeyOf(new[i]) = KeyOf(old[i])
           /\ Len(new) = Len(old) + 1 =>
                /\ changed = {}
                /\ \A i \in 1..Len(old) : KeyOf(old[i]) # KeyOf(new[Len(new)])
           /\ \A i, j \in changed : i = j
           /\ (changed # {} \/ Len(new) > Len(old)) =>
                lastEvent' \in MicEvents \cup ScreenEvents
                  \cup {"setEnableScreenAudio", "start"}]_vars

\* the first of two entries was replaced where it was
C38_Witness ==
  /\ lastEvent = "micReplacedPartial"
  /\ Len(transcriptionSegments) = 2
  /\ transcriptionSegments[1].source = "microphone"
  /\ ~transcriptionSegments[1].isPartial
  /\ transcriptionSegments[2].source = "screen"

(***************************************************************************)
(* Claims about the countdown timer                                        *)
(***************************************************************************)
\* C39: at most one countdown timer exists at any time: after any sequence of
\* arming, disarming, cadence changes and unmount there is exactly one live
\* interval while the component is mounted and armed with a positive
\* cadence, and none otherwise; the live interval is the one the ref holds
\* and reloads the current cadence, so no timer of an earlier setting ticks
\* or raises the fire signal
C39_OneTimerWhileArmed ==
  /\ liveIntervals =
       IF mounted /\ autoGenerate /\ generationFrequency > 0 THEN 1 ELSE 0
  /\ mounted => (countdownIntervalRef <=> liveIntervals = 1)
  /\ liveIntervals = 1 =>
       intervalTotalSeconds = generationFrequency * SecondsPerMinute

\* C39, the ticks: a step takes at most one second off the countdown
C39_OneDecrementPerTick ==
  [][lastEvent' \in {"tick", "fire"} =>
       /\ liveIntervals = 1
       /\ \/ countdownSeconds' = countdownSeconds - 1
          \/ (countdownSeconds = 1 /\ countdownSeconds' = intervalTotalSeconds)]_vars

\* the cadence was changed while armed: one interval, of the new cadence
C39_Witness ==
  /\ lastEvent = "setGenerationFrequency"
  /\ mounted
  /\ autoGenerate
  /\ generationFrequency = 1
  /\ liveIntervals = 1

\* the component was unmounted while armed: no interval is left
C39_WitnessUnmount ==
  /\ lastEvent = "unmount"
  /\ autoGenerate
  /\ countdownIntervalRef
  /\ liveIntervals = 0

====
